---- MODULE Spec2Model ----
(***************************************************************************)
(* Model of the utxo-relayer bundler: the indexed operation Pool           *)
(* (src/src/pool.rs), the Bundle container and its price estimate          *)
(* (src/src/contracts.rs) and the Pending selector with the three event    *)
(* handlers that drive it (src/src/main.rs).                               *)
(*                                                                         *)
(* A Rust panic inside a Pool method is modelled where it happens: the     *)
(* mutations made before the panicking statement stay in the pool value    *)
(* and its err field names the panic.                                      *)
(***************************************************************************)
EXTENDS Integers, Sequences, FiniteSets, TLC

VARIABLES
    by_gas,       \* Pool::by_gas
    by_input,     \* Pool::by_input
    len,          \* Pool::len
    deposits,     \* Pending::deposits, the DepositPool
    best_bundle,  \* Pending::best_bundle: <<>> for None, <<b>> for Some(b)
    cmd_alive,    \* the execute_commands task has not panicked
    aborted,      \* history: the panic of the observed call or handler, or NoPanic
    last,         \* history: the observed call or handler, its argument and
                  \* the Pool and best_bundle it found
    sent,         \* history: what the observed handler handed to broadcast
    events,       \* history: the events the observed handler emitted
    handled,      \* history: the number of handlers run so far
    a_bundle,     \* a Bundle under construction
    task_pc,      \* where each handler task stands in its function
    task_arg,     \* the command or chain transaction each task was given
    lock_holders, \* the tasks that hold the guard of the Pending mutex
    evt_chan,     \* the number of events in the channel to the printer
    mined_txs     \* the chain transactions that a block holds

vars == <<by_gas, by_input, len, deposits, best_bundle, cmd_alive, aborted, last, sent,
          events, handled, a_bundle, task_pc, task_arg, lock_holders, evt_chan, mined_txs>>

lockVars == <<task_pc, task_arg, lock_holders, evt_chan, mined_txs>>

poolVars == <<by_gas, by_input, len>>

(* ------------------------------ bounds --------------------------------- *)

\* Input identifiers are 0..MaxInput; 0 is the "absent" sentinel of Transfer.
MaxInput == 2

\* Gas prices are GasUnit * (1..MaxGas).
MaxGas == 2

GasUnit == 40

\* A bundle read from the chain holds at most this many operations.
MaxBundleOps == 1

\* The coordinator is followed through this many handler runs.
MaxHandlers == 3

\* The value the model gives Pool::max_len (the program's default is 1024).
MaxLen == 2

\* The value the model gives U256::MAX (the program's is 2^256 - 1).
U256_MAX == 1023

\* The selector is run on Pools of at most this many operations, more than
\* a bundle has slots.
MaxOps == 11

\* The selector is run on DepositPools of at most this many deposits.
MaxDeposits == 10

\* The deposit ids and the bounties of the DepositPool calls.
MaxDepositId == 2
MaxBounty == 2

(* ---------------------------- operations ------------------------------- *)

GasPrices == {GasUnit * x : x \in 1..MaxGas}

\* Transfer: equality is derived over every field but the signature.  The
\* fields destination, change and amount take no part in any Pool decision
\* other than equality; unequal operations over the same inputs and gas price
\* are represented by the order of input0/input1 and by the variant.
Transfers == [kind : {"T"}, input0 : 0..MaxInput, input1 : 0..MaxInput, gasprice : GasPrices]

\* Withdrawal: one input (input0); input1 is unused and fixed to 0.
Withdrawals == [kind : {"W"}, input0 : 0..MaxInput, input1 : {0}, gasprice : GasPrices]

\* Txn: the sum type the Pool of the coordinator holds.
Txns == Transfers \cup Withdrawals

\* Transaction::gas_price
gas_price(t) == t.gasprice

\* inputs with the zero of a transfer without inputs taken as an input.
inputs_ZeroIsInput(t) ==
    IF t.kind = "W" THEN <<t.input0>>
    ELSE IF t.input0 = 0 /\ t.input1 # 0 THEN <<t.input1>>
    ELSE IF t.input0 # 0 /\ t.input1 = 0 THEN <<t.input0>>
    ELSE IF t.input0 # 0 /\ t.input1 # 0 THEN <<t.input0, t.input1>>
    ELSE <<0>>

\* Transaction::inputs, as the sequence the Inputs iterator yields.
inputs(t) ==
    IF t.kind = "W" THEN <<t.input0>>
    ELSE IF t.input0 = 0 /\ t.input1 # 0 THEN <<t.input1>>
    ELSE IF t.input0 # 0 /\ t.input1 = 0 THEN <<t.input0>>
    ELSE IF t.input0 # 0 /\ t.input1 # 0 THEN <<t.input0, t.input1>>
    ELSE <<>>

(* ------------------------------- Pool ---------------------------------- *)

NoPanic == "none"

\* The Pool value: g = by_gas (BTreeMap price -> Vec), i = by_input (HashMap),
\* n = len, err = the panic raised by the call in progress.
PoolOf(g, i, n) == [g |-> g, i |-> i, n |-> n, err |-> NoPanic]

\* Pool::default
EmptyPool == PoolOf(<<>>, <<>>, 0)

MapRemove(f, k) == [x \in DOMAIN f \ {k} |-> f[x]]

MapPut(f, k, v) == [x \in DOMAIN f \cup {k} |-> IF x = k THEN v ELSE f[x]]

Panic(p, msg) == [p EXCEPT !.err = msg]

Min(S) == CHOOSE x \in S : \A y \in S : x <= y

Max(S) == CHOOSE x \in S : \A y \in S : x >= y

\* The first loop of Pool::remove: take the item out of by_input, input by input.
RECURSIVE RemoveByInput(_, _, _)
RemoveByInput(p, item, ins) ==
    IF ins = <<>> THEN p
    ELSE LET k == Head(ins) IN
         IF k \notin DOMAIN p.i
         THEN Panic(p, "item to remove not found by input")
         ELSE LET removed == p.i[k]
                  p1 == [p EXCEPT !.i = MapRemove(p.i, k)]
              IN IF removed # item
                 THEN Panic(p1, "assertion failed: removed == item")
                 ELSE RemoveByInput(p1, item, Tail(ins))

\* The second half of Pool::remove: retain, the length assertion, dropping an
\* emptied bucket, and len -= 1.
RemoveByGas(p, item) ==
    IF gas_price(item) \notin DOMAIN p.g
    THEN Panic(p, "item to remove not found by gas")
    ELSE LET same_gas == p.g[gas_price(item)]
             before == Len(same_gas)
             kept == SelectSeq(same_gas, LAMBDA e : e # item)
             p1 == [p EXCEPT !.g = MapPut(p.g, gas_price(item), kept)]
         IN IF before # Len(kept) + 1
            THEN Panic(p1, "incorrect number of items removed by gas")
            ELSE LET p2 == IF kept = <<>>
                           THEN [p1 EXCEPT !.g = MapRemove(p.g, gas_price(item))]
                           ELSE p1
                 IN IF p2.n = 0
                    THEN Panic(p2, "attempt to subtract with overflow")
                    ELSE [p2 EXCEPT !.n = p2.n - 1]

\* Pool::remove
Remove(p, item) ==
    LET p1 == RemoveByInput(p, item, inputs(item))
    IN IF p1.err # NoPanic THEN p1 ELSE RemoveByGas(p1, item)

\* The conflict scan with the tie decided for the newcomer (> in place of >=).
RECURSIVE Replacees_TieToNewcomer(_, _, _, _)
Replacees_TieToNewcomer(p, item, force, ins) ==
    IF ins = <<>> THEN [stop |-> FALSE, list |-> <<>>]
    ELSE LET k == Head(ins) IN
         IF k \in DOMAIN p.i
         THEN IF ~force /\ gas_price(p.i[k]) > gas_price(item)
              THEN [stop |-> TRUE, list |-> <<>>]
              ELSE LET rest == Replacees_TieToNewcomer(p, item, force, Tail(ins))
                   IN [stop |-> rest.stop, list |-> <<p.i[k]>> \o rest.list]
         ELSE Replacees_TieToNewcomer(p, item, force, Tail(ins))

\* The conflict scan of maybe_replace: the replacees in input order, or the
\* early return when an incumbent's gas price is not below the item's.
RECURSIVE Replacees(_, _, _, _)
Replacees(p, item, force, ins) ==
    IF ins = <<>> THEN [stop |-> FALSE, list |-> <<>>]
    ELSE LET k == Head(ins) IN
         IF k \in DOMAIN p.i
         THEN IF ~force /\ gas_price(p.i[k]) >= gas_price(item)
              THEN [stop |-> TRUE, list |-> <<>>]
              ELSE LET rest == Replacees(p, item, force, Tail(ins))
                   IN [stop |-> rest.stop, list |-> <<p.i[k]>> \o rest.list]
         ELSE Replacees(p, item, force, Tail(ins))

\* "Remove replaced transactions": Pool::remove on each replacee in turn.
RECURSIVE RemoveAll(_, _)
RemoveAll(p, list) ==
    IF list = <<>> \/ p.err # NoPanic THEN p
    ELSE RemoveAll(Remove(p, Head(list)), Tail(list))

\* "Insert the new transaction": by_input under every input, push on the
\* bucket of the item's gas price, len += 1.
RECURSIVE IndexInputs(_, _, _)
IndexInputs(i, item, ins) ==
    IF ins = <<>> THEN i
    ELSE IndexInputs(MapPut(i, Head(ins), item), item, Tail(ins))

PushItem(p, item) ==
    LET gp == gas_price(item)
        bucket == IF gp \in DOMAIN p.g THEN p.g[gp] ELSE <<>>
    IN [p EXCEPT !.i = IndexInputs(p.i, item, inputs(item)),
                 !.g = MapPut(p.g, gp, Append(bucket, item)),
                 !.n = p.n + 1]

\* The overflow eviction of maybe_replace: first_key_value().unwrap().1[0].
Evict(p, max_len) ==
    IF p.n > max_len
    THEN LET lowest == p.g[Min(DOMAIN p.g)]
         IN IF lowest = <<>>
            THEN Panic(p, "index out of bounds")
            ELSE Remove(p, lowest[1])
    ELSE p

\* Pool::maybe_replace
maybe_replace(p, item, force, max_len) ==
    LET scan == Replacees(p, item, force, inputs(item))
    IN IF scan.stop THEN p
       ELSE LET p1 == RemoveAll(p, scan.list)
            IN IF p1.err # NoPanic THEN p1
               ELSE Evict(PushItem(p1, item), max_len)

\* Pool::insert
insert(p, item) == maybe_replace(p, item, FALSE, MaxLen)

\* Pool::replace
replace(p, item) == maybe_replace(p, item, TRUE, MaxLen)

\* Pool::remove_conflicting_inputs
RECURSIVE remove_conflicting_inputs(_, _)
remove_conflicting_inputs(p, ins) ==
    IF ins = <<>> THEN p
    ELSE LET k == Head(ins) IN
         IF k \notin DOMAIN p.i
         THEN remove_conflicting_inputs(p, Tail(ins))
         ELSE LET old == p.i[k]
                  p1 == [p EXCEPT !.i = MapRemove(p.i, k)]
              IN IF gas_price(old) \notin DOMAIN p1.g
                 THEN Panic(p1, "transaction missing by gas")
                 ELSE LET same_gas == p1.g[gas_price(old)]
                          kept == SelectSeq(same_gas, LAMBDA e : e # old)
                          removed == Len(same_gas) - Len(kept)
                          p2 == [p1 EXCEPT !.g = MapPut(p1.g, gas_price(old), kept)]
                      IN IF removed # 1
                         THEN Panic(p2, "too many transactions removed by gas")
                         ELSE remove_conflicting_inputs(
                                  [p2 EXCEPT !.n = p2.n - removed], Tail(ins))

\* Pool::remove_conflicting
remove_conflicting(p, other) == remove_conflicting_inputs(p, inputs(other))

\* Pool::iter: buckets by descending gas price, each in insertion order.
RECURSIVE IterFrom(_, _)
IterFrom(g, keys) ==
    IF keys = {} THEN <<>>
    ELSE LET k == Max(keys) IN g[k] \o IterFrom(g, keys \ {k})

iter(p) == IterFrom(p.g, DOMAIN p.g)

\* Pool::peek: last_key_value().and_then(|(_, v)| v.first())
NoTxn == [kind |-> "none", input0 |-> 0, input1 |-> 0, gasprice |-> 0]

peek(p) ==
    IF DOMAIN p.g = {} THEN NoTxn
    ELSE LET v == p.g[Max(DOMAIN p.g)]
         IN IF v = <<>> THEN NoTxn ELSE v[1]

(* ---------------------------- DepositPool ----------------------------- *)

\* DepositPool::default: by_id (HashMap id -> Identified) and by_bounty (BTreeSet).
\* An Identified is [bounty, amount, owner, id].
EmptyDepositPool == [by_id |-> <<>>, by_bounty |-> {}]

\* The derived Ord of Identified(Deposit, U256): Deposit::cmp on (bounty,
\* amount, owner), then the id.
IdentifiedLess(a, b) ==
    \/ a.bounty < b.bounty
    \/ a.bounty = b.bounty /\ a.amount < b.amount
    \/ a.bounty = b.bounty /\ a.amount = b.amount /\ a.owner < b.owner
    \/ a.bounty = b.bounty /\ a.amount = b.amount /\ a.owner = b.owner /\ a.id < b.id

RECURSIVE Descending(_)
Descending(S) ==
    IF S = {} THEN <<>>
    ELSE LET m == CHOOSE x \in S : \A y \in S \ {x} : IdentifiedLess(y, x)
         IN <<m>> \o Descending(S \ {m})

\* iter without rev(): by_bounty in its own, ascending order.
DepositIter_NotReversed(d) ==
    LET s == Descending(d.by_bounty)
    IN [x \in 1..Len(s) |-> s[Len(s) + 1 - x]]

\* DepositPool::iter: by_bounty in reverse order.
DepositIter(d) == Descending(d.by_bounty)

\* The panic of the assert in DepositPool::insert.
DepositMismatch == "inserted item didn't match existing"

\* DepositPool::insert without the assert: a differing record is replaced.
deposit_insert_Replaces(d, item) ==
    LET had == item.id \in DOMAIN d.by_id
        old == d.by_id[item.id]
        d1 == [d EXCEPT !.by_id = MapPut(@, item.id, item)]
    IN [pool |-> [d1 EXCEPT !.by_bounty =
                     ((IF had THEN @ \ {old} ELSE @) \cup {item})],
        err |-> NoPanic]

\* DepositPool::insert: the pool after the call and its panic.  by_id is
\* written before the assert.
deposit_insert(d, item) ==
    LET had == item.id \in DOMAIN d.by_id
        old == d.by_id[item.id]
        d1 == [d EXCEPT !.by_id = MapPut(@, item.id, item)]
    IN IF had /\ old # item THEN [pool |-> d1, err |-> DepositMismatch]
       ELSE [pool |-> [d1 EXCEPT !.by_bounty =
                          ((IF had THEN @ \ {old} ELSE @) \cup {item})],
             err |-> NoPanic]

(* ------------------------------ Bundle --------------------------------- *)

MAX_SLOTS == 10

SLOTS_PER_CLAIM == 1

SLOTS_PER_TRANSFER == 1

SLOTS_PER_WITHDRAWAL == 1

GAS_CONSTANT == 0

GAS_VARIABLE == 0

\* Deposit::fees
fees(count, gasprice) == (GAS_CONSTANT + (GAS_VARIABLE * count)) * gasprice

\* Bundle::new (the claim's input and signature are never read by the selector).
NewBundle ==
    [claim |-> [gasprice |-> 0, deposits |-> <<>>], transfers |-> <<>>, withdrawals |-> <<>>]

\* Bundle::transactions: the transfers, then the withdrawals.
transactions(b) == b.transfers \o b.withdrawals

\* Bundle::full_slots
full_slots(b) ==
    (Len(b.claim.deposits) * SLOTS_PER_CLAIM)
        + (Len(b.transfers) * SLOTS_PER_TRANSFER)
        + (Len(b.withdrawals) * SLOTS_PER_WITHDRAWAL)

\* Bundle::free_slots
free_slots(b) == MAX_SLOTS - full_slots(b)

\* insert_deposit without the test for a free slot.
insert_deposit_Unchecked(b, id) ==
    [bundle |-> [b EXCEPT !.claim.deposits = Append(@, id)], rejected |-> FALSE]

\* Bundle::insert_deposit: the bundle after the call and whether the id came back.
insert_deposit(b, id) ==
    IF free_slots(b) < SLOTS_PER_CLAIM
    THEN [bundle |-> b, rejected |-> TRUE]
    ELSE [bundle |-> [b EXCEPT !.claim.deposits = Append(@, id)], rejected |-> FALSE]

\* insert_withdrawal that reports a full bundle's withdrawal as taken.
insert_withdrawal_Swallows(b, w) ==
    IF free_slots(b) < SLOTS_PER_WITHDRAWAL
    THEN [bundle |-> b, rejected |-> FALSE]
    ELSE [bundle |-> [b EXCEPT !.withdrawals = Append(@, w)], rejected |-> FALSE]

\* Bundle::insert_withdrawal
insert_withdrawal(b, w) ==
    IF free_slots(b) < SLOTS_PER_WITHDRAWAL
    THEN [bundle |-> b, rejected |-> TRUE]
    ELSE [bundle |-> [b EXCEPT !.withdrawals = Append(@, w)], rejected |-> FALSE]

\* Bundle::insert_transfer
insert_transfer(b, xfr) ==
    IF free_slots(b) < SLOTS_PER_TRANSFER
    THEN [bundle |-> b, rejected |-> TRUE]
    ELSE [bundle |-> [b EXCEPT !.transfers = Append(@, xfr)], rejected |-> FALSE]

\* Bundle::insert
bundle_insert(b, txn) ==
    IF txn.kind = "W" THEN insert_withdrawal(b, txn) ELSE insert_transfer(b, txn)

\* Bundle::minimum_gas_price: <<>> for None, <<m>> for Some(m).
minimum_gas_price(b) ==
    LET prices == (IF b.claim.deposits = <<>> THEN {} ELSE {b.claim.gasprice})
                      \cup {gas_price(transactions(b)[x]) : x \in 1..Len(transactions(b))}
    IN IF prices = {} THEN <<>> ELSE <<Min(prices)>>

\* The panic of the checked U256 multiplication.
MulOverflow == "arithmetic operation overflow"

\* Bundle::estimate_price panics: the bribe (min_gp - base) * full_slots does
\* not fit a U256.
estimate_overflows(b, base) ==
    LET opt == minimum_gas_price(b)
    IN /\ opt # <<>>
       /\ opt[1] > base
       /\ (opt[1] - base) * full_slots(b) > U256_MAX

\* Bundle::estimate_price, where it returns.
estimate_price(b, base) ==
    LET opt == minimum_gas_price(b)
    IN IF opt = <<>> THEN 0
       ELSE IF ~(opt[1] > base) THEN opt[1]
       ELSE base + (((opt[1] - base) * full_slots(b)) \div MAX_SLOTS)

(* ------------------------------ Pending -------------------------------- *)

\* The inner loop of regenerate: break-even deposits, appended to bundle.
\* held is deposits.len() of new_bundle.claim.deposits, which the loop never
\* extends.
RECURSIVE CollectDeposits(_, _, _, _)
CollectDeposits(bundle, held, candidates, gp) ==
    IF candidates = <<>> THEN bundle
    ELSE LET candidate == Head(candidates)
             previous_fees == fees(held, gp)
             my_fees == fees(held + 1, gp) - previous_fees
         IN IF candidate.bounty < my_fees THEN bundle
            ELSE LET r == insert_deposit(bundle, candidate.id)
                 IN IF r.rejected THEN bundle
                    ELSE CollectDeposits(r.bundle, held, Tail(candidates), gp)

\* Select with the loop going on at equal estimates.
RECURSIVE Select_TieContinues(_, _, _, _)
Select_TieContinues(bundle, txns, dep, base) ==
    IF txns = <<>> THEN [bundle |-> bundle, err |-> NoPanic]
    ELSE LET txn == Head(txns)
             gp == gas_price(txn)
             copied == [NewBundle EXCEPT !.transfers = bundle.transfers,
                                         !.withdrawals = bundle.withdrawals]
             inserted == bundle_insert(copied, txn).bundle
             new_bundle == [inserted EXCEPT !.claim.gasprice = gp]
             bundle1 == CollectDeposits(bundle, Len(new_bundle.claim.deposits),
                                        DepositIter(dep), gp)
         IN IF estimate_overflows(bundle1, base) \/ estimate_overflows(new_bundle, base)
            THEN [bundle |-> bundle1, err |-> MulOverflow]
            ELSE IF estimate_price(bundle1, base) > estimate_price(new_bundle, base)
            THEN [bundle |-> bundle1, err |-> NoPanic]
            ELSE Select_TieContinues(new_bundle, Tail(txns), dep, base)

\* The outer loop of regenerate over Pool::iter: the bundle it ends with, or
\* the panic of a price estimate.
RECURSIVE Select(_, _, _, _)
Select(bundle, txns, dep, base) ==
    IF txns = <<>> THEN [bundle |-> bundle, err |-> NoPanic]
    ELSE LET txn == Head(txns)
             gp == gas_price(txn)
             copied == [NewBundle EXCEPT !.transfers = bundle.transfers,
                                         !.withdrawals = bundle.withdrawals]
             inserted == bundle_insert(copied, txn).bundle
             new_bundle == [inserted EXCEPT !.claim.gasprice = gp]
             bundle1 == CollectDeposits(bundle, Len(new_bundle.claim.deposits),
                                        DepositIter(dep), gp)
         IN IF estimate_overflows(bundle1, base) \/ estimate_overflows(new_bundle, base)
            THEN [bundle |-> bundle1, err |-> MulOverflow]
            ELSE IF estimate_price(bundle1, base) >= estimate_price(new_bundle, base)
            THEN [bundle |-> bundle1, err |-> NoPanic]
            ELSE Select(new_bundle, Tail(txns), dep, base)

\* The iterations of the outer loop of regenerate, one record each: the
\* bundle the iteration began with, the bundle compared in its last
\* statement (after the deposit loop) and the candidate new_bundle.
RECURSIVE Iterations(_, _, _, _)
Iterations(bundle, txns, dep, base) ==
    IF txns = <<>> THEN <<>>
    ELSE LET txn == Head(txns)
             gp == gas_price(txn)
             copied == [NewBundle EXCEPT !.transfers = bundle.transfers,
                                         !.withdrawals = bundle.withdrawals]
             inserted == bundle_insert(copied, txn).bundle
             new_bundle == [inserted EXCEPT !.claim.gasprice = gp]
             bundle1 == CollectDeposits(bundle, Len(new_bundle.claim.deposits),
                                        DepositIter(dep), gp)
             this == <<[began |-> bundle, compared |-> bundle1, candidate |-> new_bundle]>>
         IN IF estimate_overflows(bundle1, base) \/ estimate_overflows(new_bundle, base)
            THEN this
            ELSE IF estimate_price(bundle1, base) >= estimate_price(new_bundle, base)
            THEN this
            ELSE this \o Iterations(new_bundle, Tail(txns), dep, base)

\* regenerate with the cached bundle replaced at equal estimates as well.
regenerate_TieReplaces(pool, dep, best, base) ==
    LET s == Select(NewBundle, iter(pool), dep, base)
        bundle == s.bundle
        compared == best # <<>>
        replace_it == IF compared
                      THEN ~(estimate_price(best[1], base) > estimate_price(bundle, base))
                      ELSE TRUE
    IN IF s.err # NoPanic THEN [best |-> best, ret |-> <<>>, err |-> s.err]
       ELSE IF compared /\ (estimate_overflows(best[1], base) \/ estimate_overflows(bundle, base))
       THEN [best |-> best, ret |-> <<>>, err |-> MulOverflow]
       ELSE IF replace_it
       THEN [best |-> <<bundle>>, ret |-> <<bundle>>, err |-> NoPanic]
       ELSE [best |-> best, ret |-> <<>>, err |-> NoPanic]

\* Pending::regenerate: the new best_bundle, the returned Option, and the
\* panic of a price estimate, which leaves best_bundle as it was.
regenerate(pool, dep, best, base) ==
    LET s == Select(NewBundle, iter(pool), dep, base)
        bundle == s.bundle
        compared == best # <<>>
        replace_it == IF compared
                      THEN ~(estimate_price(best[1], base) >= estimate_price(bundle, base))
                      ELSE TRUE
    IN IF s.err # NoPanic THEN [best |-> best, ret |-> <<>>, err |-> s.err]
       ELSE IF compared /\ (estimate_overflows(best[1], base) \/ estimate_overflows(bundle, base))
       THEN [best |-> best, ret |-> <<>>, err |-> MulOverflow]
       ELSE IF replace_it
       THEN [best |-> <<bundle>>, ret |-> <<bundle>>, err |-> NoPanic]
       ELSE [best |-> best, ret |-> <<>>, err |-> NoPanic]

\* generate without the clearing of best_bundle.
generate_KeepsCache(pool, dep, best, base) == regenerate(pool, dep, best, base)

\* Pending::generate: best_bundle is cleared, then regenerate.
generate(pool, dep, best, base) == regenerate(pool, dep, <<>>, base)

(* ----------------------------- handlers -------------------------------- *)

\* fetch_base
Base == 5

\* A chain transaction as the handlers read it: to (the UTXO contract or
\* not), mined (block_hash is some) and the payload.  The payload is "short"
\* (fewer than 4 bytes), "garbage" (the ABI decoder refuses it) or "bundle".
OpSeqs(S, n) == UNION {[1..k -> S] : k \in 0..n}

ChainBundles ==
    {[NewBundle EXCEPT !.transfers = ts, !.withdrawals = ws] :
        <<ts, ws>> \in {pair \in OpSeqs(Transfers, MaxBundleOps) \X OpSeqs(Withdrawals, MaxBundleOps) :
                          Len(pair[1]) + Len(pair[2]) <= MaxBundleOps}}

Payloads ==
    {[form |-> "short", bundle |-> NewBundle], [form |-> "garbage", bundle |-> NewBundle]}
        \cup {[form |-> "bundle", bundle |-> b] : b \in ChainBundles}

TxOf(to, mined, payload) == [to |-> to, mined |-> mined, payload |-> payload]

EmptyPayload == [form |-> "bundle", bundle |-> NewBundle]

NoTx == TxOf("none", FALSE, EmptyPayload)

\* The transactions the watchers deliver.  One transaction stands for all
\* those to another address, and one for all those already mined: the
\* handlers return before reading anything else of them.
OtherTx == TxOf("other", FALSE, EmptyPayload)

MinedTx == TxOf("utxo", TRUE, EmptyPayload)

PendingTxs == {OtherTx, MinedTx} \cup {TxOf("utxo", FALSE, pl) : pl \in Payloads}

\* The transactions of a block are mined.
BlockTxs == {TxOf("other", TRUE, EmptyPayload)} \cup {TxOf("utxo", TRUE, pl) : pl \in Payloads}

\* Bundle::decode_slice: input[4..] panics on a short payload; an ABI error is
\* returned; otherwise the bundle.
decode_slice(payload) ==
    IF payload.form = "short"
    THEN [panic |-> "range start index 4 out of range", ok |-> FALSE, bundle |-> NewBundle]
    ELSE IF payload.form = "garbage"
    THEN [panic |-> NoPanic, ok |-> FALSE, bundle |-> NewBundle]
    ELSE [panic |-> NoPanic, ok |-> TRUE, bundle |-> payload.bundle]

Event(kind, n) == [kind |-> kind, n |-> n]

\* What a handler leaves behind: the Pool, best_bundle, the bundle handed to
\* broadcast (<<>> when none), the events emitted, and the panic that ended it.
Outcome(pool, best, snt, evs, panic) ==
    [pool |-> [pool EXCEPT !.err = NoPanic], best |-> best, sent |-> snt,
     events |-> evs, panic |-> panic]

\* Publish with the cached bundle broadcast again when the selector returns
\* absent.
Publish_RebroadcastsCache(pool, r, evs, rpc_ok, failed, failpanic) ==
    IF r.err # NoPanic THEN Outcome(pool, r.best, <<>>, evs, r.err)
    ELSE IF r.best = <<>> THEN Outcome(pool, r.best, <<>>, evs, NoPanic)
    ELSE Outcome(pool, r.best, <<[bundle |-> r.best[1], ok |-> rpc_ok]>>,
                 evs \o <<Event("Broadcast", 0)>> \o (IF rpc_ok THEN <<>> ELSE failed),
                 IF rpc_ok THEN NoPanic ELSE failpanic)

\* The tail of the three handlers: the result of regenerate/generate is
\* installed and, when a bundle came back, announced and broadcast.  failed is
\* the event a failing broadcast ends in (<<>> where the error is unwrapped).
Publish(pool, r, evs, rpc_ok, failed, failpanic) ==
    IF r.err # NoPanic THEN Outcome(pool, r.best, <<>>, evs, r.err)
    ELSE IF r.ret = <<>> THEN Outcome(pool, r.best, <<>>, evs, NoPanic)
    ELSE Outcome(pool, r.best, <<[bundle |-> r.ret[1], ok |-> rpc_ok]>>,
                 evs \o <<Event("Broadcast", 0)>> \o (IF rpc_ok THEN <<>> ELSE failed),
                 IF rpc_ok THEN NoPanic ELSE failpanic)

\* insert_txn, with the CommandError reply of execute_commands.
insert_txn(pool, dep, best, txn, rpc_ok) ==
    LET before_count == pool.n
        p1 == remove_conflicting(pool, txn)
    IN IF p1.err # NoPanic THEN Outcome(p1, best, <<>>, <<>>, p1.err)
       ELSE LET after_count == p1.n
                removed == before_count - after_count
                ev1 == IF removed > 0 THEN <<Event("PoolDrop", removed)>> ELSE <<>>
                p2 == insert(p1, txn)
            IN IF p2.err # NoPanic THEN Outcome(p2, best, <<>>, ev1, p2.err)
               ELSE IF p2.n < after_count
               THEN Outcome(p2, best, <<>>, ev1, "attempt to subtract with overflow")
               ELSE Publish(p2, regenerate(p2, dep, best, Base),
                            ev1 \o <<Event("PoolAdd", p2.n - after_count)>>,
                            rpc_ok, <<Event("CommandError", 0)>>, NoPanic)

\* The loop of process_block_transaction: remove_conflicting per operation.
RECURSIVE RemoveMined(_, _)
RemoveMined(p, txns) ==
    IF txns = <<>> \/ p.err # NoPanic THEN p
    ELSE RemoveMined(remove_conflicting(p, Head(txns)), Tail(txns))

\* process_block_transaction, with the bad_block event of process_block.
process_block_transaction(pool, dep, best, tx, status, rpc_ok) ==
    IF tx.to # "utxo" THEN Outcome(pool, best, <<>>, <<>>, NoPanic)
    ELSE IF status # 1 THEN Outcome(pool, best, <<>>, <<Event("BadBundle", 0)>>, NoPanic)
    ELSE LET d == decode_slice(tx.payload)
             ev0 == <<Event("GoodBundle", 0)>>
         IN IF d.panic # NoPanic THEN Outcome(pool, best, <<>>, ev0, d.panic)
            ELSE IF ~d.ok
            THEN Outcome(pool, best, <<>>, ev0 \o <<Event("DecodeError", 0)>>, NoPanic)
            ELSE LET before_count == pool.n
                     p1 == RemoveMined(pool, transactions(d.bundle))
                 IN IF p1.err # NoPanic THEN Outcome(p1, best, <<>>, ev0, p1.err)
                    ELSE LET removed == before_count - p1.n
                             ev1 == IF removed > 0
                                    THEN ev0 \o <<Event("PoolDrop", removed)>>
                                    ELSE ev0
                         IN Publish(p1, generate(p1, dep, best, Base), ev1, rpc_ok,
                                    <<Event("BadBlock", 0)>>, NoPanic)

\* The panic of the unwrap in process_transaction.
UnwrapErr == "called Result::unwrap() on an Err value"

\* The loops of try_process_transaction: Pool::insert per operation.
RECURSIVE InsertAll(_, _)
InsertAll(p, txns) ==
    IF txns = <<>> \/ p.err # NoPanic THEN p
    ELSE InsertAll(insert(p, Head(txns)), Tail(txns))

\* try_process_transaction, with the unwrap of process_transaction.
try_process_transaction(pool, dep, best, tx, rpc_ok) ==
    IF tx.to # "utxo" \/ tx.mined THEN Outcome(pool, best, <<>>, <<>>, NoPanic)
    ELSE LET d == decode_slice(tx.payload)
         IN IF d.panic # NoPanic THEN Outcome(pool, best, <<>>, <<>>, d.panic)
            ELSE IF ~d.ok
            THEN Outcome(pool, best, <<>>, <<Event("DecodeError", 0)>>, NoPanic)
            ELSE LET p1 == InsertAll(pool, d.bundle.withdrawals \o d.bundle.transfers)
                 IN IF p1.err # NoPanic THEN Outcome(p1, best, <<>>, <<>>, p1.err)
                    ELSE Publish(p1, regenerate(p1, dep, best, Base), <<>>, rpc_ok,
                                 <<>>, UnwrapErr)

(* ------------------------- the Pool as state --------------------------- *)

\* The Pool held in the state variables.
ThePool == PoolOf(by_gas, by_input, len)

\* The operations resident in the Pool: present in a by-gas-price bucket.
Resident(p) == {iter(p)[x] : x \in 1..Len(iter(p))}

\* How often an operation occurs over all buckets.
Occurrences(p, t) == Cardinality({x \in 1..Len(iter(p)) : iter(p)[x] = t})

\* The non-zero inputs of an operation.
NonZeroInputs(t) == {inputs(t)[x] : x \in 1..Len(inputs(t))} \ {0}

\* The call made last (a history record): its argument, the Pool and
\* best_bundle it found, for a call of the selector the base it was given
\* and the Option it returned, and for a call on the Bundle under
\* construction the Bundle it found and the Option it returned; predep is
\* the DepositPool it found.
NoCall == [call |-> "none", op |-> NoTxn, tx |-> NoTx, before |-> 0,
           pre |-> EmptyPool, prebest |-> <<>>, base |-> 0, ret |-> <<>>,
           bundle |-> NewBundle, predep |-> EmptyDepositPool]

Called(call, op, tx) ==
    [call |-> call, op |-> op, tx |-> tx, before |-> len,
     pre |-> ThePool, prebest |-> best_bundle, base |-> 0, ret |-> <<>>,
     bundle |-> a_bundle, predep |-> deposits]

\* The handler tasks: the command loop (execute_commands), a task spawned
\* for a block (process_block) and one spawned for a pending transaction
\* (process_transaction).
Tasks == {"cmd", "block", "pending"}

\* A task that was given nothing yet.
NoArg == [kind |-> "none"]

\* A Pool method was called.  A run of calls is observed at one call: last
\* records that call alone and the run is not followed beyond it, so that
\* every call of every run is the observed one of some behaviour.  A call that
\* panics is observed: it ends the run.
Install(p, call, op) ==
    /\ last = NoCall
    /\ by_gas' = p.g
    /\ by_input' = p.i
    /\ len' = p.n
    /\ aborted' = p.err
    /\ \E observe \in {p.err # NoPanic, TRUE} :
           last' = IF observe THEN Called(call, op, NoTx) ELSE NoCall

Init ==
    /\ by_gas = <<>>
    /\ by_input = <<>>
    /\ len = 0
    /\ aborted = NoPanic
    /\ last = NoCall
    /\ best_bundle = <<>>
    /\ deposits = EmptyDepositPool
    /\ sent = <<>>
    /\ cmd_alive = TRUE
    /\ events = <<>>
    /\ handled = 0
    /\ a_bundle = NewBundle
    /\ task_pc = [h \in Tasks |-> "idle"]
    /\ task_arg = [h \in Tasks |-> NoArg]
    /\ lock_holders = {}
    /\ evt_chan = 0
    /\ mined_txs = {}

sysVars == <<best_bundle, deposits, sent, cmd_alive, events, handled, a_bundle, lockVars>>

\* A call of Pool::insert.
Insert(t) ==
    /\ Install(insert(ThePool, t), "insert", t)
    /\ UNCHANGED sysVars

\* A call of Pool::replace.
Replace(t) ==
    /\ Install(replace(ThePool, t), "replace", t)
    /\ UNCHANGED sysVars

\* A call of Pool::remove.
RemoveCall(t) ==
    /\ Install(Remove(ThePool, t), "remove", t)
    /\ UNCHANGED sysVars

\* A call of Pool::remove_conflicting.
RemoveConflicting(t) ==
    /\ Install(remove_conflicting(ThePool, t), "remove_conflicting", t)
    /\ UNCHANGED sysVars

\* A call of Pool::peek: the Option it returns.
Peek ==
    /\ last = NoCall
    /\ last' = [Called("peek", NoTxn, NoTx) EXCEPT
                    !.ret = IF peek(ThePool) = NoTxn THEN <<>> ELSE <<peek(ThePool)>>]
    /\ UNCHANGED <<poolVars, aborted, sysVars>>

Next ==
    \/ \E t \in Txns : Insert(t)
    \/ \E t \in Txns : Replace(t)
    \/ \E t \in Txns : RemoveCall(t)
    \/ \E t \in Txns : RemoveConflicting(t)
    \/ Peek

Spec == Init /\ [][Next]_vars

(* --------------------------- the coordinator --------------------------- *)

\* A handler ran to its end or to its panic.  The task that panics ends; the
\* lock guard is dropped while unwinding and Pending stays as the panic left
\* it for the handlers that follow.  A run is observed at one handler: the
\* history variables (last, sent, events, aborted) record that handler alone
\* and the run is not followed beyond it, so that every handler of every run
\* of at most MaxHandlers handlers is the observed one of some behaviour.
Handled(o, call, op, tx) ==
    /\ last = NoCall
    /\ handled < MaxHandlers
    /\ handled' = handled + 1
    /\ by_gas' = o.pool.g
    /\ by_input' = o.pool.i
    /\ len' = o.pool.n
    /\ best_bundle' = o.best
    /\ \E observe \in BOOLEAN :
           /\ last' = IF observe THEN Called(call, op, tx) ELSE NoCall
           /\ sent' = IF observe THEN o.sent ELSE <<>>
           /\ events' = IF observe THEN o.events ELSE <<>>
           /\ aborted' = IF observe THEN o.panic ELSE NoPanic
    /\ UNCHANGED <<deposits, a_bundle, lockVars>>

\* An operator command "transfer" or "withdraw": insert_txn in the command
\* loop, which a panic ends.  rpc_ok is the outcome of the chain client for the
\* call-then-send of broadcast.
Submit(t) ==
    /\ cmd_alive
    /\ \E rpc_ok \in BOOLEAN :
           LET o == insert_txn(ThePool, deposits, best_bundle, t, rpc_ok)
           IN /\ Handled(o, "submit", t, NoTx)
              /\ cmd_alive' = (o.panic = NoPanic)

\* A transaction of a new block with its receipt status:
\* process_block_transaction in a spawned task.  One transaction stands for
\* those whose receipt reports a failure.
BlockTransaction(tx, status) ==
    /\ status = 0 => tx = MinedTx
    /\ \E rpc_ok \in BOOLEAN :
           Handled(process_block_transaction(ThePool, deposits, best_bundle, tx,
                                             status, rpc_ok),
                   IF status = 1 THEN "block" ELSE "block-failed", NoTxn, tx)
    /\ UNCHANGED cmd_alive

\* A pending transaction: try_process_transaction in a spawned task.
PendingTransaction(tx) ==
    /\ \E rpc_ok \in BOOLEAN :
           Handled(try_process_transaction(ThePool, deposits, best_bundle, tx, rpc_ok),
                   "pending", NoTxn, tx)
    /\ UNCHANGED cmd_alive

SysNext ==
    \/ \E t \in Txns : Submit(t)
    \/ \E tx \in BlockTxs, status \in {0, 1} : BlockTransaction(tx, status)
    \/ \E tx \in PendingTxs : PendingTransaction(tx)

SysSpec == Init /\ [][SysNext]_vars

(* ----------------------------- the selector ---------------------------- *)

\* Pending::regenerate and Pending::generate are run on the Pools and
\* DepositPools that inserts build, with every base of Bases.

DEFAULT_MAX_LEN == 1024

\* The gas prices of the operations: the lowest and the highest of GasPrices
\* and U256::MAX.
SelectorPrices == {Min(GasPrices), Max(GasPrices), U256_MAX}

Bases == {0, Base, GasUnit + Base}

\* The operations that arrive at a Pool p: the next unused input, a transfer
\* at an odd input and a withdrawal at an even one, at a gas price not above
\* those resident (iter() sorts by gas price whatever the order of arrival).
Arrivals(p) ==
    {[kind |-> IF (p.n + 1) % 2 = 1 THEN "T" ELSE "W", input0 |-> p.n + 1, input1 |-> 0,
      gasprice |-> g] :
        g \in {x \in SelectorPrices : \A k \in DOMAIN p.g : x <= k}}

\* The deposit with a given id.
DepositOf(id) == [bounty |-> 1 + (id % 2), amount |-> 1, owner |-> 1, id |-> id]

\* Pool::insert with the program's max_len.
Arrive(t) ==
    /\ last = NoCall
    /\ len < MaxOps
    /\ LET p == maybe_replace(ThePool, t, FALSE, DEFAULT_MAX_LEN)
       IN /\ by_gas' = p.g
          /\ by_input' = p.i
          /\ len' = p.n
          /\ aborted' = p.err
    /\ UNCHANGED <<last, sysVars>>

\* DepositPool::insert of the next deposit.
DepositArrive ==
    /\ last = NoCall
    /\ Cardinality(deposits.by_bounty) < MaxDeposits
    /\ LET r == deposit_insert(deposits, DepositOf(Cardinality(deposits.by_bounty) + 1))
       IN /\ deposits' = r.pool
          /\ aborted' = r.err
    /\ UNCHANGED <<poolVars, best_bundle, sent, cmd_alive, events, handled, a_bundle, last, lockVars>>

\* A call of the selector was made: r is its result.  As for the Pool
\* methods, a run of calls is observed at one call.
Selected(r, call, base) ==
    /\ last = NoCall
    /\ best_bundle' = r.best
    /\ aborted' = r.err
    /\ \E observe \in {r.err # NoPanic, TRUE} :
           last' = IF observe
                   THEN [Called(call, NoTxn, NoTx) EXCEPT !.base = base, !.ret = r.ret]
                   ELSE NoCall
    /\ UNCHANGED <<poolVars, deposits, sent, cmd_alive, events, handled, a_bundle, lockVars>>

\* A call of Pending::regenerate.
Regenerate(base) ==
    Selected(regenerate(ThePool, deposits, best_bundle, base), "regenerate", base)

\* A call of Pending::generate.
Generate(base) ==
    Selected(generate(ThePool, deposits, best_bundle, base), "generate", base)

SelectorNext ==
    \/ \E t \in Arrivals(ThePool) : Arrive(t)
    \/ DepositArrive
    \/ \E base \in Bases : Regenerate(base)
    \/ \E base \in Bases : Generate(base)

SelectorSpec == Init /\ [][SelectorNext]_vars

(* ------------------------ a Bundle being built ------------------------- *)

\* The operations put into the Bundle: transfers at a usual gas price and at
\* U256::MAX, withdrawals at a usual gas price.
BundleOps ==
    {[kind |-> "T", input0 |-> 1, input1 |-> 0, gasprice |-> g] : g \in {GasUnit, U256_MAX}}
        \cup {[kind |-> "W", input0 |-> 1, input1 |-> 0, gasprice |-> GasUnit]}

\* A call on the Bundle under construction was made: r is its result.  As
\* for the Pool methods, a run of calls is observed at one call.
Built(r, call, op) ==
    /\ last = NoCall
    /\ a_bundle' = r.bundle
    /\ \E observe \in BOOLEAN :
           last' = IF observe
                   THEN [Called(call, op, NoTx) EXCEPT !.ret = IF r.rejected THEN <<op>> ELSE <<>>]
                   ELSE NoCall
    /\ UNCHANGED <<poolVars, deposits, best_bundle, sent, cmd_alive, events, handled, aborted,
                   lockVars>>

\* A call of Bundle::insert.
BundleInsert(t) == Built(bundle_insert(a_bundle, t), "Bundle::insert", t)

\* A call of Bundle::insert_deposit, with the next id.
BundleInsertDeposit ==
    LET id == Len(a_bundle.claim.deposits) + 1
    IN Built(insert_deposit(a_bundle, id), "Bundle::insert_deposit", id)

\* The assignment to claim.gasprice.
SetClaimGasPrice(gp) ==
    Built([bundle |-> [a_bundle EXCEPT !.claim.gasprice = gp], rejected |-> FALSE],
          "claim.gasprice", NoTxn)

\* A call of Bundle::estimate_price: the value it returns, or its panic.
EstimatePrice(base) ==
    /\ last = NoCall
    /\ LET panics == estimate_overflows(a_bundle, base)
       IN /\ aborted' = IF panics THEN MulOverflow ELSE NoPanic
          /\ last' = [Called("estimate_price", NoTxn, NoTx) EXCEPT
                          !.base = base,
                          !.ret = IF panics THEN <<>> ELSE <<estimate_price(a_bundle, base)>>]
    /\ UNCHANGED <<poolVars, deposits, best_bundle, sent, cmd_alive, events, handled, a_bundle,
                   lockVars>>

BundleNext ==
    \/ \E t \in BundleOps : BundleInsert(t)
    \/ BundleInsertDeposit
    \/ \E gp \in {GasUnit, U256_MAX} : SetClaimGasPrice(gp)
    \/ \E base \in Bases : EstimatePrice(base)

BundleSpec == Init /\ [][BundleNext]_vars

\* Pending is as constructed.
PendingUntouched ==
    ThePool = EmptyPool /\ deposits = EmptyDepositPool /\ best_bundle = <<>>

\* The Bundle under construction and Pending are separate values: a run
\* follows one of the two.
BundlesNext ==
    \/ PendingUntouched /\ BundleNext
    \/ a_bundle = NewBundle /\ SelectorNext

BundlesSpec == Init /\ [][BundlesNext]_vars

(* ------------------------ DepositPool calls ---------------------------- *)

\* The Identified deposits inserted: every record under every id.
DepositItems ==
    {[bounty |-> b, amount |-> a, owner |-> o, id |-> i] :
        b \in 1..MaxBounty, a \in {1, 2}, o \in {1, 2}, i \in 1..MaxDepositId}

\* A call of DepositPool::insert.  As for the Pool methods, a run of calls is
\* observed at one call, and a call that panics is observed.
DepositInsert(item) ==
    /\ last = NoCall
    /\ LET r == deposit_insert(deposits, item)
       IN /\ deposits' = r.pool
          /\ aborted' = r.err
          /\ \E observe \in {r.err # NoPanic, TRUE} :
                 last' = IF observe THEN Called("DepositPool::insert", item, NoTx)
                         ELSE NoCall
    /\ UNCHANGED <<poolVars, best_bundle, sent, cmd_alive, events, handled, a_bundle, lockVars>>

\* show_deposits: DepositPool::iter is run through; ret is what it yields.
ShowDeposits ==
    /\ last = NoCall
    /\ last' = [Called("DepositPool::iter", NoTxn, NoTx) EXCEPT !.ret = DepositIter(deposits)]
    /\ UNCHANGED <<poolVars, deposits, best_bundle, sent, cmd_alive, events, handled,
                   a_bundle, aborted, lockVars>>

DepositNext ==
    \/ \E item \in DepositItems : DepositInsert(item)
    \/ ShowDeposits

DepositSpec == Init /\ [][DepositNext]_vars

(* ------------------- the handlers and the Pending mutex ---------------- *)

\* The three handlers are followed statement by statement between their
\* await points: the lock of state.pending, the sends to the event channel,
\* the chain client.  A task handles one command or one chain transaction.

\* mpsc::channel(1) of the events.
EVENT_CAPACITY == 1

\* The operations the tasks are given: a withdrawal and a two-input transfer
\* that spend the same input.
LockOps ==
    {[kind |-> "W", input0 |-> 1, input1 |-> 0, gasprice |-> GasUnit],
     [kind |-> "T", input0 |-> 1, input1 |-> MaxInput, gasprice |-> 2 * GasUnit]}

\* The operator commands: transfer / withdraw, and show transfers.
Commands == {[kind |-> "submit", op |-> t] : t \in LockOps} \cup {[kind |-> "show"]}

\* The chain transactions to the UTXO contract: a bundle of one operation.
LockTxs == {[kind |-> "tx", op |-> t] : t \in LockOps}

\* The statements at which a task holds the guard of state.pending.
HoldLocs == {"locked", "drop_reply", "insert", "add_reply", "regenerate", "announce",
             "broadcast", "unlock", "show"}

\* The statements that are a send to the event channel.
ReplyLocs == {"drop_reply", "add_reply", "announce", "good_reply", "bad_reply", "err_reply"}

\* A step of a task that touches neither Pending nor the chain.
Moved(h, loc) ==
    /\ task_pc' = [task_pc EXCEPT ![h] = loc]
    /\ UNCHANGED <<poolVars, best_bundle, task_arg, evt_chan, mined_txs>>

\* The variables of the other specifications.
otherVars == <<deposits, cmd_alive, aborted, last, sent, events, handled, a_bundle>>

\* ui.recv_command returns a command to execute_commands.
Command(c) ==
    /\ task_pc["cmd"] = "idle"
    /\ task_pc' = [task_pc EXCEPT !["cmd"] = "lock"]
    /\ task_arg' = [task_arg EXCEPT !["cmd"] = c]
    /\ UNCHANGED <<poolVars, best_bundle, lock_holders, evt_chan, mined_txs, otherVars>>

\* A block holding tx arrives: process_block is spawned.
BlockArrives(tx) ==
    /\ task_pc["block"] = "idle"
    /\ task_pc' = [task_pc EXCEPT !["block"] = "fetch"]
    /\ task_arg' = [task_arg EXCEPT !["block"] = tx]
    /\ mined_txs' = mined_txs \cup {tx}
    /\ UNCHANGED <<poolVars, best_bundle, lock_holders, evt_chan, otherVars>>

\* The hash of pending tx arrives: process_transaction is spawned.
PendingArrives(tx) ==
    /\ task_pc["pending"] = "idle"
    /\ task_pc' = [task_pc EXCEPT !["pending"] = "fetch"]
    /\ task_arg' = [task_arg EXCEPT !["pending"] = tx]
    /\ UNCHANGED <<poolVars, best_bundle, lock_holders, evt_chan, mined_txs, otherVars>>

\* process_block_transaction up to the lock: the receipt is fetched; an
\* error goes to bad_block, a bad status to bad_bundle, else good_bundle.
FetchReceipt ==
    /\ task_pc["block"] = "fetch"
    /\ \E rpc_ok \in BOOLEAN, status \in {0, 1} :
           Moved("block", IF ~rpc_ok THEN "err_reply"
                          ELSE IF status # 1 THEN "bad_reply" ELSE "good_reply")
    /\ UNCHANGED <<lock_holders, otherVars>>

\* try_process_transaction up to the lock: the transaction is fetched; an
\* error is unwrapped in process_transaction, a mined transaction is left.
FetchTransaction ==
    /\ task_pc["pending"] = "fetch"
    /\ \E rpc_ok \in BOOLEAN :
           Moved("pending", IF ~rpc_ok THEN "dead"
                            ELSE IF task_arg["pending"] \in mined_txs THEN "done"
                            ELSE "lock")
    /\ UNCHANGED <<lock_holders, otherVars>>

\* state.pending.lock().await with the lock taken whoever holds it.
Acquire_Unguarded(h) ==
    /\ task_pc[h] = "lock"
    /\ lock_holders' = lock_holders \cup {h}
    /\ Moved(h, IF task_arg[h].kind = "show" THEN "show" ELSE "locked")
    /\ UNCHANGED otherVars

\* state.pending.lock().await returns the guard.
Acquire(h) ==
    /\ task_pc[h] = "lock"
    /\ lock_holders = {}
    /\ lock_holders' = lock_holders \cup {h}
    /\ Moved(h, IF task_arg[h].kind = "show" THEN "show" ELSE "locked")
    /\ UNCHANGED otherVars

\* A statement of the holder of the guard changed Pending to p and best, or
\* panicked: the task ends and the unwinding drops the guard.
Held(h, p, best, loc) ==
    /\ by_gas' = p.g
    /\ by_input' = p.i
    /\ len' = p.n
    /\ best_bundle' = IF p.err # NoPanic THEN best_bundle ELSE best
    /\ task_pc' = [task_pc EXCEPT ![h] = IF p.err # NoPanic THEN "dead" ELSE loc]
    /\ lock_holders' = IF p.err # NoPanic THEN lock_holders \ {h} ELSE lock_holders
    /\ UNCHANGED <<task_arg, evt_chan, mined_txs, otherVars>>

\* The Pool mutation of a handler: remove_conflicting in insert_txn, the
\* remove_conflicting loop in process_block_transaction, the inserts in
\* try_process_transaction.
Mutate(h) ==
    /\ task_pc[h] = "locked"
    /\ LET t == task_arg[h].op
           p == IF h = "pending" THEN insert(ThePool, t) ELSE remove_conflicting(ThePool, t)
       IN Held(h, p, best_bundle,
               IF h = "pending" THEN "regenerate"
               ELSE IF len - p.n > 0 THEN "drop_reply"
               ELSE IF h = "cmd" THEN "insert" ELSE "regenerate")

\* pending.transactions.insert(txn) in insert_txn.
InsertSubmitted ==
    /\ task_pc["cmd"] = "insert"
    /\ Held("cmd", insert(ThePool, task_arg["cmd"].op), best_bundle, "add_reply")

\* regenerate(base) in insert_txn and try_process_transaction, generate(base)
\* in process_block_transaction.
Reselect(h) ==
    /\ task_pc[h] = "regenerate"
    /\ LET r == IF h = "block" THEN generate(ThePool, deposits, best_bundle, Base)
                ELSE regenerate(ThePool, deposits, best_bundle, Base)
       IN Held(h, [ThePool EXCEPT !.err = r.err], r.best,
               IF r.ret # <<>> THEN "announce" ELSE "unlock")

\* The statement after a send to the event channel: the handler that
\* reported an error or a bad bundle has returned without its work done.
AfterReply(h) ==
    CASE task_pc[h] = "drop_reply" -> IF h = "cmd" THEN "insert" ELSE "regenerate"
      [] task_pc[h] = "add_reply" -> "regenerate"
      [] task_pc[h] = "announce" -> "broadcast"
      [] task_pc[h] = "good_reply" -> "lock"
      [] OTHER -> "failed"

\* events.reply / events.oob: the send returns when the channel has room.
SendEvent(h) ==
    /\ task_pc[h] \in ReplyLocs
    /\ evt_chan < EVENT_CAPACITY
    /\ evt_chan' = evt_chan + 1
    /\ task_pc' = [task_pc EXCEPT ![h] = AfterReply(h)]
    /\ UNCHANGED <<poolVars, best_bundle, task_arg, mined_txs, lock_holders, otherVars>>

\* show_transfers: one reply per transfer of the Pool, under the guard.
ShowNext ==
    /\ task_pc["cmd"] = "show"
    /\ LET shown == IF "left" \in DOMAIN task_arg["cmd"] THEN task_arg["cmd"].left
                    ELSE Cardinality({x \in 1..Len(iter(ThePool)) : iter(ThePool)[x].kind = "T"})
       IN IF shown = 0
          THEN /\ task_pc' = [task_pc EXCEPT !["cmd"] = "unlock"]
               /\ UNCHANGED <<task_arg, evt_chan>>
          ELSE /\ evt_chan < EVENT_CAPACITY
               /\ evt_chan' = evt_chan + 1
               /\ task_arg' = [task_arg EXCEPT !["cmd"] = [kind |-> "show", left |-> shown - 1]]
               /\ UNCHANGED task_pc
    /\ UNCHANGED <<poolVars, best_bundle, mined_txs, lock_holders, otherVars>>

\* broadcast: call().await? and send().await?.  An error leaves the function
\* and drops the guard; it is replied in execute_commands, reported in
\* process_block and unwrapped in process_transaction.
BroadcastBundle(h) ==
    /\ task_pc[h] = "broadcast"
    /\ \E rpc_ok \in BOOLEAN :
           /\ Moved(h, IF rpc_ok THEN "unlock" ELSE IF h = "pending" THEN "dead" ELSE "err_reply")
           /\ lock_holders' = IF rpc_ok THEN lock_holders ELSE lock_holders \ {h}
    /\ UNCHANGED otherVars

\* Release without the guard given back.
Release_KeepsGuard(h) ==
    /\ task_pc[h] = "unlock"
    /\ Moved(h, "done")
    /\ UNCHANGED <<lock_holders, otherVars>>

\* The handler returns: the guard is dropped.
Release(h) ==
    /\ task_pc[h] = "unlock"
    /\ lock_holders' = lock_holders \ {h}
    /\ Moved(h, "done")
    /\ UNCHANGED otherVars

\* The printer thread takes an event from the channel.
Printer ==
    /\ evt_chan > 0
    /\ evt_chan' = evt_chan - 1
    /\ UNCHANGED <<poolVars, best_bundle, task_pc, task_arg, mined_txs, lock_holders, otherVars>>

LockNext ==
    \/ \E c \in Commands : Command(c)
    \/ \E tx \in LockTxs : BlockArrives(tx)
    \/ \E tx \in LockTxs : PendingArrives(tx)
    \/ FetchReceipt
    \/ FetchTransaction
    \/ \E h \in Tasks : Acquire(h)
    \/ \E h \in Tasks : Mutate(h)
    \/ InsertSubmitted
    \/ \E h \in Tasks : Reselect(h)
    \/ \E h \in Tasks : SendEvent(h)
    \/ ShowNext
    \/ \E h \in Tasks : BroadcastBundle(h)
    \/ \E h \in Tasks : Release(h)
    \/ Printer

LockSpec == Init /\ [][LockNext]_vars

\* A step of the handler h that waits or calls out: for the lock, for room
\* in the event channel, for the chain client.
HandlerStep(h) ==
    \/ Acquire(h)
    \/ SendEvent(h)
    \/ BroadcastBundle(h)
    \/ Release(h)
    \/ (h = "cmd" /\ ShowNext)
    \/ (h = "block" /\ FetchReceipt)
    \/ (h = "pending" /\ FetchTransaction)

\* A statement of the handler h on Pending, between two awaits.
PendingStep(h) ==
    \/ Mutate(h)
    \/ Reselect(h)
    \/ (h = "cmd" /\ InsertSubmitted)

\* The statements at which PendingStep(h) can be taken: none of them waits.
PendingLocs(h) == {"locked", "regenerate"} \cup (IF h = "cmd" THEN {"insert"} ELSE {})

\* The scheduling of the handlers: the runtime runs every task that can
\* take a step, the chain client returns, and the printer thread keeps
\* draining the event channel.  The second conjunct is WF_vars(PendingStep(h))
\* with the enabling condition of the step written as its location.  Events
\* arrive when they arrive: the three arrival actions carry no fairness.
LockFairness ==
    /\ \A h \in Tasks : WF_vars(HandlerStep(h))
    /\ \A h \in Tasks : \/ []<>(task_pc[h] \notin PendingLocs(h))
                         \/ []<><<PendingStep(h)>>_vars
    /\ WF_vars(Printer)

LockLiveSpec == LockSpec /\ LockFairness

(* ---------------------- properties of the Pool ------------------------- *)

\* The positions of iter() at which an operation with input k sits.
HoldersOf(p, k) == {x \in 1..Len(iter(p)) : k \in NonZeroInputs(iter(p)[x])}

\* C1: in every state reached by insert, replace, remove and
\* remove_conflicting calls, each non-zero input identifier is an input of at
\* most one operation resident in a by-gas-price bucket.
C1_ExclusiveInput ==
    \A k \in 1..MaxInput : Cardinality(HoldersOf(ThePool, k)) <= 1

\* The index view of one resident operation: it is the by-input value under
\* each of its non-zero inputs and sits exactly once in the bucket of its gas
\* price (so in no other bucket).
IndexedOnce(p, o) ==
    /\ \A k \in NonZeroInputs(o) : k \in DOMAIN p.i /\ p.i[k] = o
    /\ Occurrences(p, o) = 1
    /\ gas_price(o) \in DOMAIN p.g
    /\ \E x \in 1..Len(p.g[gas_price(o)]) : p.g[gas_price(o)][x] = o

\* C2: in every Pool state left by a call that returned, every resident
\* operation is the by-input value under each of its non-zero inputs and
\* occurs exactly once, in the bucket of its gas price.
C2_IndexConsistency ==
    aborted = NoPanic => \A o \in Resident(ThePool) : IndexedOnce(ThePool, o)

\* C3: in every Pool state left by a call that returned, every entry of the
\* by-input index points to an operation resident in the by-gas-price index.
C3_NoDanglingInput ==
    aborted = NoPanic => \A k \in DOMAIN by_input : by_input[k] \in Resident(ThePool)

\* C4: a call aborts only if it is remove(op) of an operation that is not
\* resident; insert, replace and remove_conflicting never abort.
C4_OnlyRemoveAborts ==
    [][aborted' # NoPanic =>
          last'.call = "remove" /\ last'.op \notin Resident(ThePool)]_vars

\* Every input of an operation, the zero input of a withdrawal included.
InputSet(t) == {inputs(t)[x] : x \in 1..Len(inputs(t))}

\* The operations the by-input index names under the inputs of t.
Incumbents(p, t) == {p.i[k] : k \in InputSet(t) \cap DOMAIN p.i}

\* The operation c is in neither index of q.
Gone(q, c) == c \notin Resident(q) /\ \A k \in DOMAIN q.i : q.i[k] # c

\* C5: for every reachable Pool state (below max_len, so that nothing is
\* evicted for overflow) and every operation: when every incumbent holding an
\* input of the operation is cheaper, insert completes, removes each
\* incumbent from both indexes and leaves the operation resident; replace
\* does so whatever the incumbents' prices.
C5_ConflictsEvicted ==
    LET t == last.op
        inc == Incumbents(last.pre, t)
    IN /\ last.call \in {"insert", "replace"}
       /\ last.before < MaxLen
       /\ last.call = "replace" \/ \A c \in inc : gas_price(c) < gas_price(t)
       => /\ aborted = NoPanic
          /\ t \in Resident(ThePool)
          /\ \A c \in inc \ {t} : Gone(ThePool, c)

\* The pending-transaction handler of a bundle of one operation is one call
\* of insert on the Pool, followed by regenerate.
PendingOfOne ==
    /\ last.call = "pending"
    /\ last.tx.to = "utxo"
    /\ ~last.tx.mined
    /\ last.tx.payload.form = "bundle"
    /\ Len(transactions(last.tx.payload.bundle)) = 1

\* C6: insert leaves by_gas, by_input and len unchanged, and does not panic,
\* whenever an input of its operation is indexed to an incumbent whose gas
\* price is not below the operation's, whatever the other input conflicts
\* with.
C6_StrongerIncumbentWins ==
    LET t == IF PendingOfOne THEN transactions(last.tx.payload.bundle)[1] ELSE last.op
    IN /\ last.call = "insert" \/ PendingOfOne
       /\ \E c \in Incumbents(last.pre, t) : gas_price(c) >= gas_price(t)
       => aborted \in {NoPanic, UnwrapErr} /\ ThePool = last.pre

\* An insert of a two-input transfer was refused: one input is held by a
\* resident of at least its price, the other by a cheaper resident that stays.
C6_Witness ==
    /\ aborted = NoPanic
    /\ last.call = "insert"
    /\ last.op \notin Resident(ThePool)
    /\ \E c, d \in Incumbents(last.pre, last.op) \cap Resident(ThePool) :
           /\ gas_price(c) >= gas_price(last.op)
           /\ gas_price(d) < gas_price(last.op)

(* -------------------- properties of the coordinator -------------------- *)

\* The new-block handler of a bundle of one operation is one call of
\* remove_conflicting on the Pool, followed by generate.
BlockOfOne ==
    /\ last.call = "block"
    /\ last.tx.to = "utxo"
    /\ last.tx.payload.form = "bundle"
    /\ Len(transactions(last.tx.payload.bundle)) = 1

\* C7: when remove_conflicting returns, no resident operation has a non-zero
\* input of its argument, the operations sharing no input with the argument
\* are resident and indexed as before and in the same order, len fell by the
\* number of operations removed, and an argument none of whose inputs is
\* indexed is skipped without a panic and without a change.
C7_RemoveConflicting ==
    last.call = "remove_conflicting" \/ BlockOfOne =>
        LET p == last.pre
            q == ThePool
            t == IF BlockOfOne THEN transactions(last.tx.payload.bundle)[1] ELSE last.op
        IN /\ (InputSet(t) \cap DOMAIN p.i = {}) => aborted = NoPanic /\ q = p
           /\ aborted = NoPanic =>
                  /\ \A o \in Resident(q) : NonZeroInputs(o) \cap NonZeroInputs(t) = {}
                  /\ \A o \in Resident(p) :
                         InputSet(o) \cap InputSet(t) = {} =>
                             /\ o \in Resident(q)
                             /\ \A k \in InputSet(o) :
                                    /\ k \in DOMAIN q.i <=> k \in DOMAIN p.i
                                    /\ k \in DOMAIN p.i => q.i[k] = p.i[k]
                  /\ iter(q) = SelectSeq(iter(p), LAMBDA e : e \in Resident(q))
                  /\ q.n = p.n - (Len(iter(p)) - Len(iter(q)))

\* C8: after the operator-submit handler of an operation completes on a Pool
\* below max_len, the operation is resident and no other resident operation
\* shares a non-zero input with it.
C8_SubmitLeavesOpAlone ==
    /\ last.call = "submit"
    /\ aborted = NoPanic
    /\ last.before < MaxLen
    => /\ last.op \in Resident(ThePool)
       /\ \A o \in Resident(ThePool) \ {last.op} :
              NonZeroInputs(o) \cap NonZeroInputs(last.op) = {}

\* The operations of the bundle a chain transaction carries.
Mined(tx) == {transactions(tx.payload.bundle)[x] :
                 x \in 1..Len(transactions(tx.payload.bundle))}

\* C9: after the new-block handler processed a transaction to the UTXO
\* contract with a successful receipt and a payload that decodes, no resident
\* operation shares a non-zero input with an operation of the mined bundle,
\* and best_bundle is what generate(base) computes from the Pool.
C9_BlockClearsMinedInputs ==
    /\ last.call = "block"
    /\ last.tx.to = "utxo"
    /\ last.tx.payload.form = "bundle"
    /\ aborted = NoPanic
    => /\ \A m \in Mined(last.tx) : \A o \in Resident(ThePool) :
              NonZeroInputs(o) \cap NonZeroInputs(m) = {}
       /\ best_bundle = generate(ThePool, deposits, last.prebest, Base).best

\* Pool::insert applied to each operation of a list in turn.
RECURSIVE Inserted(_, _)
Inserted(p, ops) ==
    IF ops = <<>> THEN p ELSE Inserted(insert(p, Head(ops)), Tail(ops))

\* C10: the pending-transaction handler leaves the Pool and best_bundle alone
\* and broadcasts nothing for a transaction to another address or already
\* mined; for an unmined transaction to the UTXO contract whose payload
\* decodes it applies Pool::insert to every withdrawal and transfer of the
\* bundle, so that an incumbent that is no cheaper than any of them keeps the
\* inputs it is indexed under, and then runs regenerate(base).
C10_PendingInsertsThenRegenerates ==
    last.call = "pending" =>
        LET tx == last.tx
            p == last.pre
            ops == tx.payload.bundle.withdrawals \o tx.payload.bundle.transfers
        IN /\ tx.to # "utxo" \/ tx.mined =>
                  /\ aborted = NoPanic
                  /\ ThePool = p
                  /\ best_bundle = last.prebest
                  /\ sent = <<>>
           /\ tx.to = "utxo" /\ ~tx.mined /\ tx.payload.form = "bundle" =>
                  /\ aborted \in {NoPanic, UnwrapErr}
                  /\ ThePool = Inserted(p, ops)
                  /\ best_bundle = regenerate(ThePool, deposits, last.prebest, Base).best
                  /\ \A k \in DOMAIN p.i :
                         (/\ p.n + Len(ops) <= MaxLen
                          /\ \A x \in 1..Len(ops) : gas_price(p.i[k]) >= gas_price(ops[x]))
                         => k \in DOMAIN by_input /\ by_input[k] = p.i[k]

(* --------------------- properties of the selector ---------------------- *)

\* The candidate a call of regenerate(base) builds from a Pool and a
\* DepositPool.
Candidate(p, dep, base) == Select(NewBundle, iter(p), dep, base).bundle

\* C11: a completed regenerate(base) installs its candidate as best_bundle
\* and returns it exactly when the cache was empty or the candidate's
\* estimate_price(base) is strictly greater than that of the cached bundle;
\* otherwise it returns absent and best_bundle is as it was.  The Pool and the
\* DepositPool are as the call found them.
C11_RegenerateInstallsOnlyBetter ==
    last.call = "regenerate" /\ aborted = NoPanic =>
        LET cand == Candidate(last.pre, deposits, last.base)
            better == \/ last.prebest = <<>>
                      \/ estimate_price(cand, last.base)
                             > estimate_price(last.prebest[1], last.base)
        IN /\ ThePool = last.pre
           /\ IF better
              THEN best_bundle = <<cand>> /\ last.ret = <<cand>>
              ELSE best_bundle = last.prebest /\ last.ret = <<>>

\* A regenerate that found a cached bundle with operations and declined a
\* different candidate.
C11_Witness ==
    /\ last.call = "regenerate"
    /\ aborted = NoPanic
    /\ last.prebest # <<>>
    /\ last.ret = <<>>
    /\ transactions(last.prebest[1]) # <<>>
    /\ Candidate(last.pre, deposits, last.base) # last.prebest[1]

\* The bundle of the first k operations of a sequence, without deposits.
PrefixBundle(ops, k) ==
    [NewBundle EXCEPT !.transfers = SelectSeq(SubSeq(ops, 1, k), LAMBDA t : t.kind = "T"),
                      !.withdrawals = SelectSeq(SubSeq(ops, 1, k), LAMBDA t : t.kind = "W")]

\* The first count at which no operation is left, no slot remains, or adding
\* the next operation does not strictly raise estimate_price(base).
TakeCount(ops, base) ==
    Min({k \in 0..Len(ops) :
            \/ k = Len(ops)
            \/ k = MAX_SLOTS
            \/ estimate_price(PrefixBundle(ops, k + 1), base)
                   <= estimate_price(PrefixBundle(ops, k), base)})

\* C12: with an empty DepositPool and an empty cache, the transfers and
\* withdrawals of the bundle regenerate(base) returns are exactly the first
\* k operations of Pool.iter(), k being the first count at which adding the
\* next operation does not strictly raise estimate_price(base) or no slot
\* remains.
C12_ReturnsGreedyPrefix ==
    /\ last.call = "regenerate"
    /\ aborted = NoPanic
    /\ last.prebest = <<>>
    /\ deposits = EmptyDepositPool
    => /\ last.ret # <<>>
       /\ LET k == TakeCount(iter(last.pre), last.base)
              expected == PrefixBundle(iter(last.pre), k)
          IN /\ last.ret[1].transfers = expected.transfers
             /\ last.ret[1].withdrawals = expected.withdrawals
             /\ last.ret[1].claim.deposits = <<>>

\* A regenerate on an empty cache and an empty DepositPool that stopped at
\* the slot limit with operations left over, and took more than it would
\* have at a price that does not rise.
C12_Witness ==
    /\ last.call = "regenerate"
    /\ aborted = NoPanic
    /\ last.prebest = <<>>
    /\ deposits = EmptyDepositPool
    /\ Len(iter(last.pre)) > MAX_SLOTS
    /\ Len(transactions(last.ret[1])) = MAX_SLOTS

(* ------------------- properties of the coordinator, II ----------------- *)

\* The observed handler came to its call of the selector: the operator
\* command and the block handler when nothing panicked before it, the
\* pending handler also when the unwrap of a failed broadcast panicked after
\* it.
ReachedSelector ==
    \/ last.call = "submit" /\ aborted = NoPanic
    \/ /\ last.call = "block"
       /\ last.tx.to = "utxo"
       /\ last.tx.payload.form = "bundle"
       /\ aborted = NoPanic
    \/ /\ last.call = "pending"
       /\ last.tx.to = "utxo"
       /\ ~last.tx.mined
       /\ last.tx.payload.form = "bundle"
       /\ aborted \in {NoPanic, UnwrapErr}

\* What the selector call of the observed handler returned: generate in the
\* block handler, regenerate in the other two, on the Pool the handler left.
SelectorResult ==
    IF last.call = "block"
    THEN generate(ThePool, deposits, last.prebest, Base)
    ELSE regenerate(ThePool, deposits, last.prebest, Base)

\* C13: in each of the three handlers a bundle is handed to the chain client
\* exactly when the handler's regenerate/generate call returned a bundle, and
\* it is the bundle that call installed as best_bundle; when the call
\* returns absent, or is never reached, nothing is handed over.
C13_SubmitsWhatSelectorReturned ==
    last # NoCall =>
        /\ sent # <<>> <=> (ReachedSelector /\ SelectorResult.ret # <<>>)
        /\ sent # <<>> =>
               /\ Len(sent) = 1
               /\ sent[1].bundle = SelectorResult.ret[1]
               /\ best_bundle = <<sent[1].bundle>>

\* A pending-transaction handler whose regenerate replaced a cached bundle
\* and handed the new one over.
C13_Witness ==
    /\ last.call = "pending"
    /\ last.prebest # <<>>
    /\ sent # <<>>
    /\ sent[1].bundle # last.prebest[1]

(* ----------------------- properties of the Bundle ---------------------- *)

\* The occupied slots of a bundle, counted from its three lists.
Occupied(b) == Len(b.claim.deposits) + Len(b.transfers) + Len(b.withdrawals)

\* C14: every Bundle built from Bundle::new() by insert and insert_deposit
\* calls, and every bundle that regenerate/generate install or return, has
\* |claim.deposits| + |transfers| + |withdrawals| <= MAX_SLOTS.
C14_AtMostMaxSlots ==
    /\ Occupied(a_bundle) <= MAX_SLOTS
    /\ best_bundle # <<>> => Occupied(best_bundle[1]) <= MAX_SLOTS
    /\ last.call \in {"regenerate", "generate"} /\ last.ret # <<>> =>
           Occupied(last.ret[1]) <= MAX_SLOTS

\* A regenerate that returned a bundle with every slot occupied, claimed
\* deposits among them, and a deposit of the DepositPool left out.
C14_Witness ==
    /\ last.call = "regenerate"
    /\ last.ret # <<>>
    /\ Occupied(last.ret[1]) = MAX_SLOTS
    /\ last.ret[1].claim.deposits # <<>>
    /\ Len(last.ret[1].claim.deposits) < Cardinality(deposits.by_bounty)

\* The gas prices that count in a bundle: those of its transfers and
\* withdrawals, and the claim's when deposits are claimed.
CountedPrices(b) ==
    {b.transfers[x].gasprice : x \in 1..Len(b.transfers)}
        \cup {b.withdrawals[x].gasprice : x \in 1..Len(b.withdrawals)}
        \cup (IF Len(b.claim.deposits) > 0 THEN {b.claim.gasprice} ELSE {})

\* The price of a bundle as stated: 0 when nothing is in it, else with m the
\* least counted gas price, m when m <= base and
\* base + ((m - base) * full_slots) div MAX_SLOTS when m > base.
StatedPrice(b, base) ==
    IF Occupied(b) = 0 THEN 0
    ELSE LET m == Min(CountedPrices(b))
         IN IF m <= base THEN m ELSE base + (((m - base) * Occupied(b)) \div MAX_SLOTS)

\* C15: for every bundle of at most MAX_SLOTS occupied slots and every base,
\* estimate_price(base) returns 0 when the bundle has no transfer, withdrawal
\* or deposit, and otherwise, with m the minimum over the gas prices of the
\* transfers and withdrawals and of the claim when deposits are claimed,
\* m when m <= base and base + ((m - base) * full_slots) div MAX_SLOTS when
\* m > base.
C15_EstimatePrice ==
    last.call = "estimate_price" =>
        /\ aborted = NoPanic
        /\ last.ret = <<StatedPrice(a_bundle, last.base)>>

(* -------------------- properties of the Pool, II ----------------------- *)

\* C16: after every completed insert or replace Pool.len() <= max_len, and
\* len() always equals the number of distinct operations resident in the
\* by-gas-price index.
C16_LenBounded ==
    /\ last.call \in {"insert", "replace"} /\ aborted = NoPanic => len <= MaxLen
    /\ len = Cardinality(Resident(ThePool))

\* The Pool an insert reaches before it looks at max_len: the insert as it
\* runs in a Pool with room to spare.
Unbounded(p, op) == maybe_replace(p, op, FALSE, p.n + 1)

\* A sequence without its element at position x.
Without(seq, x) == SubSeq(seq, 1, x - 1) \o SubSeq(seq, x + 1, Len(seq))

\* The position in iter() of the resident to evict: the earliest inserted of
\* those with the minimum gas price.
VictimAt(ops) ==
    Min({x \in 1..Len(ops) : gas_price(ops[x]) = Min({gas_price(ops[y]) : y \in 1..Len(ops)})})

\* C17: when an insert makes len exceed max_len the eviction completes and
\* removes exactly one operation, the earliest inserted of the residents
\* with the minimum gas price, in every reachable state.
C17_EvictsLowest ==
    /\ last.call = "insert"
    /\ Unbounded(last.pre, last.op).err = NoPanic
    /\ Unbounded(last.pre, last.op).n > MaxLen
    => LET mid == iter(Unbounded(last.pre, last.op))
       IN /\ aborted = NoPanic
          /\ len = Len(mid) - 1
          /\ iter(ThePool) = Without(mid, VictimAt(mid))

\* C18: in every reachable Pool state and for every operation op (with one
\* input, with two, or a transfer without inputs), insert(op) followed by a
\* second insert(op) leaves the Pool as the single insert(op) does.
C18_InsertIdempotent ==
    aborted = NoPanic =>
        \A op \in Txns :
            LET once == insert(ThePool, op)
            IN once.err = NoPanic => insert(once, op) = once

\* The residents of p that share an input with o.
Conflicting(p, o) ==
    {c \in Resident(p) : NonZeroInputs(c) \cap NonZeroInputs(o) # {}}

\* The Pool p with every operation conflicting with o fully removed: from its
\* bucket, from the by-input index under each of its inputs, and from len.
Cleaned(p, o) ==
    LET gone == Conflicting(p, o)
        kept(k) == SelectSeq(p.g[k], LAMBDA c : c \notin gone)
        keys == {k \in DOMAIN p.g : kept(k) # <<>>}
        held == {k \in DOMAIN p.i : p.i[k] \notin gone}
    IN [g |-> [k \in keys |-> kept(k)],
        i |-> [k \in held |-> p.i[k]],
        n |-> p.n - Cardinality({x \in 1..Len(iter(p)) : iter(p)[x] \in gone}),
        err |-> NoPanic]

\* C19: in every reachable Pool state and for every operation o,
\* remove_conflicting(o); insert(o) completes and ends in the state that
\* insert(o) reaches from the Pool with every operation conflicting with o
\* fully removed: the same residents, the same by-input index, the same len.
C19_ReplaceByRemoveThenInsert ==
    aborted = NoPanic =>
        \A o \in Txns :
            LET got == insert(remove_conflicting(ThePool, o), o)
                want == insert(Cleaned(ThePool, o), o)
            IN want.err = NoPanic =>
                   /\ got.err = NoPanic
                   /\ iter(got) = iter(want)
                   /\ got.i = want.i
                   /\ got.n = want.n

\* C20: in every state reached by insert, replace, remove and
\* remove_conflicting, peek() returns absent exactly when the Pool has no
\* resident operation, and otherwise the first element of iter(): the
\* earliest inserted of the residents with the maximum gas price.
C20_PeekIsFirstOfIter ==
    last.call = "peek" =>
        last.ret = IF iter(ThePool) = <<>> THEN <<>> ELSE <<iter(ThePool)[1]>>

(* -------------------- properties of the Pool, III ---------------------- *)

\* The sequence a is b with some elements left out, the others in order.
RECURSIVE IsSubseq(_, _)
IsSubseq(a, b) ==
    IF a = <<>> THEN TRUE
    ELSE IF b = <<>> THEN FALSE
    ELSE IF Head(a) = Head(b) THEN IsSubseq(Tail(a), Tail(b))
    ELSE IsSubseq(a, Tail(b))

\* iter() is sorted by non-increasing gas price.
Descends(ops) ==
    \A x, y \in 1..Len(ops) : x < y => gas_price(ops[x]) >= gas_price(ops[y])

\* iter() yields no operation twice.
Once(ops) == \A x, y \in 1..Len(ops) : x # y => ops[x] # ops[y]

\* A completed call keeps the order of the operations that stay, and an
\* operation that insert or replace adds comes last of those of its price.
KeepsOrder(pre, post, call, op) ==
    \/ IsSubseq(post, pre)
    \/ /\ call \in {"insert", "replace"}
       /\ \E x \in 1..Len(post) :
              /\ post[x] = op
              /\ \A y \in (x + 1)..Len(post) : gas_price(post[y]) < gas_price(op)
              /\ IsSubseq(Without(post, x), pre)

\* C21: in every reachable Pool state iter() yields every resident operation
\* exactly once, in non-increasing gas-price order, operations of equal gas
\* price in the order in which they were inserted.
C21_IterOrder ==
    /\ Descends(iter(ThePool))
    /\ Once(iter(ThePool))
    /\ last.call \in {"insert", "replace", "remove", "remove_conflicting"} /\ aborted = NoPanic
           => KeepsOrder(iter(last.pre), iter(ThePool), last.call, last.op)

\* The observed call was made with a transfer whose inputs are both zero.
OnInputless(call) ==
    last.call = call /\ last.op.kind = "T" /\ last.op.input0 = 0 /\ last.op.input1 = 0

\* The Pool p with op pushed on the bucket of its gas price, nothing else
\* touched.
Appended(p, op) ==
    [p EXCEPT !.g = MapPut(p.g, gas_price(op),
                           Append(IF gas_price(op) \in DOMAIN p.g THEN p.g[gas_price(op)]
                                  ELSE <<>>, op)),
              !.n = p.n + 1]

\* The by-input index holds nothing it did not hold before the call.
NoEntryAdded ==
    \A k \in DOMAIN by_input : k \in DOMAIN last.pre.i /\ by_input[k] = last.pre.i[k]

\* remove_conflicting with a transfer whose inputs are both zero completes
\* and leaves the Pool as it was.
InputlessRemovesNothing ==
    OnInputless("remove_conflicting") => aborted = NoPanic /\ ThePool = last.pre

C23_GenerateIgnoresCache ==
    last.call = "generate" =>
        /\ ThePool = last.pre
        /\ aborted = NoPanic =>
               /\ best_bundle = <<Candidate(last.pre, deposits, last.base)>>
               /\ last.ret = best_bundle
        /\ aborted # NoPanic => best_bundle = <<>> /\ last.ret = <<>>

\* A generate that found a cached bundle at least as good as its candidate
\* and different from it, and installed the candidate.
C23_Witness ==
    /\ last.call = "generate"
    /\ aborted = NoPanic
    /\ last.prebest # <<>>
    /\ last.prebest[1] # Candidate(last.pre, deposits, last.base)
    /\ ~estimate_overflows(last.prebest[1], last.base)
    /\ estimate_price(last.prebest[1], last.base)
           >= estimate_price(Candidate(last.pre, deposits, last.base), last.base)
    /\ last.ret # <<>>

(* -------------------- properties of the Bundle, II --------------------- *)

\* The bundle b with every gas price in it set to m: the same slots, and m
\* as its minimum gas price.
Repriced(b, m) ==
    [claim |-> [b.claim EXCEPT !.gasprice = m],
     transfers |-> [x \in 1..Len(b.transfers) |-> [b.transfers[x] EXCEPT !.gasprice = m]],
     withdrawals |-> [x \in 1..Len(b.withdrawals) |-> [b.withdrawals[x] EXCEPT !.gasprice = m]]]

\* The minimum gas prices an estimate is compared at.
ComparedPrices == (0..(GasUnit + Base + MAX_SLOTS)) \cup {U256_MAX}

\* estimate_price of the observed call is monotone against the estimates of
\* the same bundle at the other prices, wherever both return.
EstimateMonotoneWhereReturned ==
    (last.call = "estimate_price" /\ aborted = NoPanic
        /\ minimum_gas_price(last.bundle) # <<>>) =>
        \A m \in ComparedPrices :
            LET m1 == minimum_gas_price(last.bundle)[1]
                other == Repriced(last.bundle, m)
            IN ~estimate_overflows(other, last.base) =>
                   /\ m1 <= m => last.ret[1] <= estimate_price(other, last.base)
                   /\ m <= m1 => estimate_price(other, last.base) <= last.ret[1]

\* C24: for bundles with the same full_slots <= MAX_SLOTS and a fixed base,
\* estimate_price(base) is monotone non-decreasing in minimum_gas_price:
\* m1 <= m2 gives estimate(m1) <= estimate(m2), both being values the call
\* returns, also across the boundary between m <= base and m > base.
C24_EstimateMonotone ==
    (last.call = "estimate_price" /\ minimum_gas_price(last.bundle) # <<>>) =>
        /\ full_slots(last.bundle) <= MAX_SLOTS
        /\ \A m \in ComparedPrices :
               LET m1 == minimum_gas_price(last.bundle)[1]
                   other == Repriced(last.bundle, m)
               IN /\ full_slots(other) = full_slots(last.bundle)
                  /\ minimum_gas_price(other) = <<m>>
                  /\ aborted = NoPanic
                  /\ ~estimate_overflows(other, last.base)
                  /\ m1 <= m => last.ret[1] <= estimate_price(other, last.base)
                  /\ m <= m1 => estimate_price(other, last.base) <= last.ret[1]

\* The bundle b with item appended to the list of its kind: an id to the
\* claim's deposits, a transfer to transfers, a withdrawal to withdrawals.
WithItem(b, call, item) ==
    IF call = "Bundle::insert_deposit"
    THEN [b EXCEPT !.claim.deposits = Append(@, item)]
    ELSE IF item.kind = "W"
    THEN [b EXCEPT !.withdrawals = Append(@, item)]
    ELSE [b EXCEPT !.transfers = Append(@, item)]

\* C25: Bundle.insert(op) and Bundle.insert_deposit(id) append the item and
\* return absent when at least one slot is free; when no slot is free they
\* return the rejected item and leave the bundle (claim, transfers,
\* withdrawals) unchanged.
C25_InsertAppendsOrRejects ==
    last.call \in {"Bundle::insert", "Bundle::insert_deposit"} =>
        /\ aborted = NoPanic
        /\ Occupied(last.bundle) < MAX_SLOTS =>
               /\ last.ret = <<>>
               /\ a_bundle = WithItem(last.bundle, last.call, last.op)
        /\ ~(Occupied(last.bundle) < MAX_SLOTS) =>
               /\ last.ret = <<last.op>>
               /\ a_bundle = last.bundle

\* A withdrawal came back from a bundle whose slots were all taken, claimed
\* deposits and transfers among them.
C25_Witness ==
    /\ last.call = "Bundle::insert"
    /\ last.op.kind = "W"
    /\ last.ret = <<last.op>>
    /\ Occupied(last.bundle) = MAX_SLOTS
    /\ last.bundle.claim.deposits # <<>>
    /\ last.bundle.transfers # <<>>
    /\ a_bundle = last.bundle

(* ---------------------- properties of Pool::remove --------------------- *)

\* The by-gas-price map of p with op taken out of the bucket of its gas
\* price, and the bucket dropped when that leaves it empty.
BucketsWithout(p, op) ==
    LET same_gas == p.g[gas_price(op)]
        kept == Without(same_gas, Min({x \in 1..Len(same_gas) : same_gas[x] = op}))
    IN IF kept = <<>> THEN MapRemove(p.g, gas_price(op))
       ELSE MapPut(p.g, gas_price(op), kept)

\* The by-input index of p without the entries under the inputs of op.
IndexWithout(p, op) ==
    [k \in DOMAIN p.i \ NonZeroInputs(op) |-> p.i[k]]

\* A remove of a non-resident operation aborts and leaves len alone.
RemoveOfAbsentAborts ==
    (last.call = "remove" /\ last.op \notin Resident(last.pre)) =>
        aborted # NoPanic /\ len = last.before

\* C26: remove(op) of a resident operation removes it from its by-gas-price
\* bucket (dropping the bucket if it becomes empty) and from the by-input
\* index under each of its inputs and decrements len by exactly one;
\* remove(op) of an operation that is not resident aborts instead of
\* changing len.
C26_RemoveResident ==
    /\ (last.call = "remove" /\ last.op \in Resident(last.pre)) =>
           /\ aborted = NoPanic
           /\ by_gas = BucketsWithout(last.pre, last.op)
           /\ by_input = IndexWithout(last.pre, last.op)
           /\ len = last.before - 1
    /\ RemoveOfAbsentAborts

(* -------------------- properties of the DepositPool -------------------- *)

\* The entries of by_bounty that carry the id.
EntriesFor(d, id) == {e \in d.by_bounty : e.id = id}

\* The observed DepositPool::insert found its id with the record it inserts.
ReinsertedEqual ==
    /\ last.call = "DepositPool::insert"
    /\ last.op.id \in DOMAIN last.predep.by_id
    /\ last.predep.by_id[last.op.id] = last.op

\* The observed DepositPool::insert found its id with another record.
ReinsertedDiffering ==
    /\ last.call = "DepositPool::insert"
    /\ last.op.id \in DOMAIN last.predep.by_id
    /\ last.predep.by_id[last.op.id] # last.op

\* The statement of C27 as given: after every insert(id, d) the id maps to
\* d in by_id and by_bounty holds exactly the entry d for id, a previous
\* record being replaced; an equal record leaves iter() as it was.
C27_InsertSetsRecord_Stated ==
    last.call = "DepositPool::insert" =>
        /\ last.op.id \in DOMAIN deposits.by_id
        /\ deposits.by_id[last.op.id] = last.op
        /\ EntriesFor(deposits, last.op.id) = {last.op}
        /\ ReinsertedEqual => DepositIter(deposits) = DepositIter(last.predep)

\* C27: after DepositPool.insert(id, d) with id absent, or present with a
\* record equal to d, id maps to exactly d in by_id, by_bounty holds exactly
\* one entry for id and it carries d, the other entries are as before, and
\* with an equal record iter() is unchanged; with id present under a
\* different record the insert aborts on its assert, by_id already maps id
\* to d and by_bounty still holds the previous record.
C27_InsertSetsRecord ==
    last.call = "DepositPool::insert" =>
        /\ last.op.id \in DOMAIN deposits.by_id
        /\ deposits.by_id = MapPut(last.predep.by_id, last.op.id, last.op)
        /\ ~ReinsertedDiffering =>
               /\ aborted = NoPanic
               /\ EntriesFor(deposits, last.op.id) = {last.op}
               /\ deposits.by_bounty =
                      (last.predep.by_bounty \ EntriesFor(last.predep, last.op.id))
                          \cup {last.op}
        /\ ReinsertedEqual => DepositIter(deposits) = DepositIter(last.predep)
        /\ ReinsertedDiffering =>
               /\ aborted = DepositMismatch
               /\ deposits.by_bounty = last.predep.by_bounty
               /\ EntriesFor(deposits, last.op.id) = {last.predep.by_id[last.op.id]}

\* An insert of the record already stored for its id, into a DepositPool
\* that holds another deposit as well.
C27_Witness ==
    /\ ReinsertedEqual
    /\ aborted = NoPanic
    /\ Cardinality(deposits.by_bounty) = 2
    /\ DepositIter(deposits) = DepositIter(last.predep)
    /\ deposits.by_id[last.op.id] = last.op

\* a is below b in the lexicographic order of (bounty, amount, owner).
RecordLess(a, b) ==
    \/ a.bounty < b.bounty
    \/ a.bounty = b.bounty /\ a.amount < b.amount
    \/ a.bounty = b.bounty /\ a.amount = b.amount /\ a.owner < b.owner

\* a and b carry equal Deposit records.
SameRecord(a, b) ==
    a.bounty = b.bounty /\ a.amount = b.amount /\ a.owner = b.owner

\* What the observed iter() yielded never rises in (bounty, amount, owner).
IterNeverRises ==
    last.call = "DepositPool::iter" =>
        \A x, y \in 1..Len(last.ret) : x < y => ~RecordLess(last.ret[x], last.ret[y])

\* The statement of C28 as given: iter() yields the deposits in
\* non-increasing order of (bounty, amount, owner), and the id takes no part
\* in the key of by_bounty, so that by_bounty holds no two entries with
\* equal records.
C28_IterByBounty_Stated ==
    last.call = "DepositPool::iter" =>
        \A x, y \in 1..Len(last.ret) :
            x < y => /\ ~RecordLess(last.ret[x], last.ret[y])
                     /\ ~SameRecord(last.ret[x], last.ret[y])

\* C28: DepositPool.iter() yields every entry of by_bounty once, in
\* non-increasing lexicographic order of (bounty, amount, owner), highest
\* bounty first; the deposit id is the last component of the by_bounty key:
\* equal records under different ids are separate entries and are yielded
\* in decreasing order of id.
C28_IterByBounty ==
    last.call = "DepositPool::iter" =>
        /\ {last.ret[x] : x \in 1..Len(last.ret)} = deposits.by_bounty
        /\ Len(last.ret) = Cardinality(deposits.by_bounty)
        /\ \A x, y \in 1..Len(last.ret) :
               x < y => \/ RecordLess(last.ret[y], last.ret[x])
                        \/ /\ SameRecord(last.ret[x], last.ret[y])
                           /\ last.ret[y].id < last.ret[x].id

\* An iter() that yielded two deposits with equal records, the one with the
\* higher id first.
C28_Witness ==
    /\ last.call = "DepositPool::iter"
    /\ Len(last.ret) = 2
    /\ SameRecord(last.ret[1], last.ret[2])
    /\ last.ret[1].id > last.ret[2].id

(* ------------------ properties of the coordinator, III ----------------- *)

\* The observed handler was given a mined transaction to the UTXO contract
\* whose receipt status is not success.
FailedReceipt == last.call = "block-failed" /\ last.tx.to = "utxo"

\* The observed handler was given a transaction to the UTXO contract, mined
\* with success or pending, whose payload has the form f.
GivenPayload(f) ==
    /\ \/ last.call = "block"
       \/ last.call = "pending" /\ ~last.tx.mined
    /\ last.tx.to = "utxo"
    /\ last.tx.payload.form = f

\* The observed handler changed nothing of Pending, broadcast nothing,
\* emitted an event of the kind and returned.
SkippedWith(kind) ==
    /\ ThePool = last.pre
    /\ deposits = last.predep
    /\ best_bundle = last.prebest
    /\ sent = <<>>
    /\ \E x \in 1..Len(events) : events[x].kind = kind
    /\ aborted = NoPanic

\* A failed receipt and a payload that the ABI decoder refuses are skipped
\* and reported.
RefusedInputSkipped ==
    /\ FailedReceipt => SkippedWith("BadBundle")
    /\ GivenPayload("garbage") => SkippedWith("DecodeError")

\* C29: a mined transaction whose receipt status is not success, and a
\* pending or mined transaction whose payload fails to decode (a payload
\* shorter than the 4-byte selector included), leave Pool, DepositPool and
\* best_bundle unchanged, cause no broadcast, are reported as an event, and
\* never abort the handler task.
C29_BadInputSkipped ==
    /\ RefusedInputSkipped
    /\ GivenPayload("short") => SkippedWith("DecodeError")

(* ------------------- properties of the Bundle, III --------------------- *)

\* The observed estimate_price call was made on a bundle whose minimum gas
\* price is above the base.
EstimatedAboveBase ==
    /\ last.call = "estimate_price"
    /\ minimum_gas_price(last.bundle) # <<>>
    /\ minimum_gas_price(last.bundle)[1] > last.base

\* Where estimate_price returns for m > base, it returns the stated value,
\* which lies in [base, m].
EstimateInRangeWhereReturned ==
    (EstimatedAboveBase /\ aborted = NoPanic) =>
        LET m == minimum_gas_price(last.bundle)[1]
        IN /\ last.ret = <<last.base + (((m - last.base) * full_slots(last.bundle))
                                            \div MAX_SLOTS)>>
           /\ last.base <= last.ret[1]
           /\ last.ret[1] <= m

\* C30: for every 256-bit m > base and every full_slots <= MAX_SLOTS the
\* product (m - base) * full_slots stays within unsigned 256-bit arithmetic:
\* estimate_price(base) does not abort on overflow and returns
\* base + ((m - base) * full_slots) div MAX_SLOTS, a value in [base, m].
C30_ProductFitsU256 ==
    EstimatedAboveBase =>
        LET m == minimum_gas_price(last.bundle)[1]
        IN /\ full_slots(last.bundle) <= MAX_SLOTS
           /\ m <= U256_MAX
           /\ (m - last.base) * full_slots(last.bundle) <= U256_MAX
           /\ aborted = NoPanic
           /\ EstimateInRangeWhereReturned

(* ------------------- properties of the selector, III ------------------- *)

\* The iterations of the observed regenerate/generate call.
ObservedIterations == Iterations(NewBundle, iter(last.pre), deposits, last.base)

\* The iterations end in the bundle that Select ends with.
IterationsAgree ==
    last.call \in {"regenerate", "generate"} =>
        LET its == ObservedIterations
            s == Select(NewBundle, iter(last.pre), deposits, last.base)
        IN /\ its = <<>> => s.bundle = NewBundle
           /\ its # <<>> => s.bundle \in {its[Len(its)].compared, its[Len(its)].candidate}

\* C31: while regenerate evaluates a candidate operation, break-even
\* deposits are appended to the candidate new_bundle and the incumbent bundle
\* is not mutated: the bundle compared against the candidate, and kept when
\* the candidate does not improve, has the claim.deposits it had when the
\* iteration began.
C31_IncumbentNotMutated ==
    last.call \in {"regenerate", "generate"} =>
        \A x \in 1..Len(ObservedIterations) :
            ObservedIterations[x].compared.claim.deposits
                = ObservedIterations[x].began.claim.deposits

\* The ids of the deposits of a highest-bounty-first sequence that break
\* even at gp, k deposits being claimed already: those up to the first whose
\* bounty is below the marginal fee fees(k + 1, gp) - fees(k, gp).
RECURSIVE BreakEvenIds(_, _, _)
BreakEvenIds(candidates, k, gp) ==
    IF candidates = <<>> THEN <<>>
    ELSE IF Head(candidates).bounty < fees(k + 1, gp) - fees(k, gp) THEN <<>>
    ELSE <<Head(candidates).id>> \o BreakEvenIds(Tail(candidates), k + 1, gp)

\* The gas price of the operation that a bundle of Pool operations took
\* last: the operations are taken in the order of iter().
LastTakenPrice(b, ops) == gas_price(ops[Len(transactions(b))])

\* C32: every bundle returned by regenerate that contains at least one
\* operation either has no free slot or contains in claim.deposits every
\* DepositPool deposit whose bounty is at least the marginal claim fee at the
\* gas price of the last operation added, in highest-bounty-first order.
C32_ClaimsBreakEvenDeposits ==
    (last.call \in {"regenerate", "generate"} /\ last.ret # <<>>
        /\ transactions(last.ret[1]) # <<>>) =>
        \/ free_slots(last.ret[1]) = 0
        \/ last.ret[1].claim.deposits
              = BreakEvenIds(DepositIter(deposits), 0,
                             LastTakenPrice(last.ret[1], iter(last.pre)))

(* ------------------ properties of the coordinator, IV ------------------ *)

\* The observed handler was given a decodable bundle of a transaction to
\* the UTXO contract, pending or successfully mined, and the chain client
\* returned no error to it.
HandledBundle ==
    /\ GivenPayload("bundle")
    /\ \A x \in 1..Len(sent) : sent[x].ok

\* What handling the observed transaction once more leaves behind, the
\* chain client returning no error.
Repeated ==
    IF last.call = "block"
    THEN process_block_transaction(ThePool, deposits, best_bundle, last.tx, 1, TRUE)
    ELSE try_process_transaction(ThePool, deposits, best_bundle, last.tx, TRUE)

\* C33: handling the same pending transaction twice, or the same
\* successfully mined bundle twice, after any completed handlers, leaves the
\* Pool in the state that handling it once leaves, and neither handling
\* aborts; bundles carrying a resident two-input transfer and bundles whose
\* inputs no operation holds included.
C33_HandlingTwiceAsOnce ==
    HandledBundle =>
        /\ aborted = NoPanic
        /\ Repeated.panic = NoPanic
        /\ Repeated.pool = ThePool

(* -------------------- properties of the Pending mutex ------------------ *)

\* The statements of a handler after its Pool mutation began and before its
\* regeneration is over.
MutationToRegeneration == {"drop_reply", "insert", "add_reply", "regenerate"}

\* At most one task holds the guard, and a task stands at a statement that
\* reads or writes Pending exactly when it holds the guard.
OneHolder ==
    /\ Cardinality(lock_holders) <= 1
    /\ \A h \in Tasks : task_pc[h] \in HoldLocs <=> h \in lock_holders

\* A step that changes Pool or best_bundle is a step of the holder of the
\* guard, and while a task is between its mutation and its regeneration no
\* other task takes a step at a statement that reads or writes Pending.
OnlyTheHolderSteps ==
    /\ (ThePool' # ThePool \/ best_bundle' # best_bundle) =>
           \E h \in lock_holders : task_pc'[h] # task_pc[h]
    /\ \A h \in Tasks : task_pc[h] \in MutationToRegeneration =>
           \A g \in Tasks \ {h} :
               task_pc'[g] # task_pc[g] =>
                   task_pc[g] \notin HoldLocs /\ task_pc'[g] \notin HoldLocs

\* C34: all reads and writes of Pool, DepositPool and best_bundle by the
\* operator, new-block and pending-transaction handlers happen while holding
\* the single Pending mutex; at most one handler holds it at a time; each
\* handler's Pool mutation and the regeneration that follows occur within one
\* hold, no other handler observing the Pool in between.
C34_SerializedByMutex == []OneHolder /\ [][OnlyTheHolderSteps]_vars

\* The operator's handler stands between its insert and its regeneration
\* while the two other handlers wait for the lock.
C34_Witness ==
    /\ task_pc["cmd"] = "add_reply"
    /\ task_pc["block"] = "lock"
    /\ task_pc["pending"] = "lock"
    /\ lock_holders = {"cmd"}

(* ------------------- properties of the coordinator, V ------------------ *)

\* The observed handler handed a bundle to broadcast and the chain client
\* returned an error.
SubmissionFailed == last # NoCall /\ sent # <<>> /\ ~sent[Len(sent)].ok

\* The handler of a pending bundle without operations, run next with a
\* chain client that returns no error: it regenerates on the unchanged Pool.
NextPending ==
    try_process_transaction(ThePool, deposits, best_bundle,
                            TxOf("utxo", FALSE, EmptyPayload), TRUE)

\* The handler of a mined bundle without operations, run next: it
\* generates on the unchanged Pool.
NextBlock ==
    process_block_transaction(ThePool, deposits, best_bundle,
                              TxOf("utxo", TRUE, EmptyPayload), 1, TRUE)

\* After a failed submission the next block handler submits again.
BlockRetriesAfterFailure == SubmissionFailed => NextBlock.sent # <<>>

\* C35: after a bundle submission fails, the next regeneration triggered by
\* any event submits a bundle again, even when Pool, DepositPool and base are
\* unchanged since the failed attempt.
C35_RetriesAfterFailure ==
    SubmissionFailed =>
        /\ NextPending.pool = ThePool
        /\ NextPending.sent # <<>>
        /\ NextBlock.sent # <<>>

\* The error of the chain client was reported by the observed handler, as a
\* CommandError reply or as the bad_block event, and the handler returned.
ErrorReported ==
    /\ aborted = NoPanic
    /\ events # <<>>
    /\ events[Len(events)].kind \in {"CommandError", "BadBlock"}

\* The operator and block handlers report an error of broadcast.
CommandAndBlockReport ==
    (SubmissionFailed /\ last.call \in {"submit", "block"}) => ErrorReported

\* C36: in every handler (operator command, new block, pending transaction)
\* an error returned by the chain client ends only that handler and is
\* reported as a CommandError reply or an out-of-band event; it is never
\* propagated as an abort of the handler task.
C36_RpcErrorsReported ==
    /\ CommandAndBlockReport
    /\ (SubmissionFailed /\ last.call = "pending") => ErrorReported

\* C37: every handler that acquires the Pending lock eventually releases
\* it, and every handler waiting for the lock eventually acquires it,
\* provided chain RPCs return and the printer keeps draining the event
\* channel: no handler holding the lock waits on anything that requires the
\* lock.
C37_LockIsReleasedAndAcquired ==
    \A h \in Tasks :
        /\ (h \in lock_holders) ~> (h \notin lock_holders)
        /\ (task_pc[h] = "lock") ~> (h \in lock_holders)

\* The operator's handler holds the lock and waits at a send to the full
\* event channel while the two other handlers wait for the lock.
C37_Witness ==
    /\ lock_holders = {"cmd"}
    /\ task_pc["cmd"] \in ReplyLocs \cup {"show"}
    /\ evt_chan = EVENT_CAPACITY
    /\ task_pc["block"] = "lock"
    /\ task_pc["pending"] = "lock"

\* The transfers and withdrawals of the cached best_bundle.
CachedOps ==
    IF best_bundle = <<>> THEN {}
    ELSE {transactions(best_bundle[1])[x] : x \in 1..Len(transactions(best_bundle[1]))}

\* C38: after any handler completes, every transfer and withdrawal of the
\* cached best_bundle is resident in the Pool: the cache never retains an
\* operation that was evicted by a conflicting submission, removed as mined,
\* or evicted on overflow.
C38_CacheIsResident ==
    (last # NoCall /\ aborted = NoPanic) => CachedOps \subseteq Resident(ThePool)

\* C39: no handler ever submits a bundle with zero occupied slots: when the
\* Pool is empty, or no operation is selected, regenerate and generate return
\* absent and nothing is broadcast.
C39_NoEmptyBundleSubmitted ==
    \A x \in 1..Len(sent) : Occupied(sent[x].bundle) > 0

\* The block handler and the pending-transaction handler of one transaction
\* have both returned, the block handler through its removal of the mined
\* operations, and the operator has submitted nothing.
BothHandled ==
    /\ task_pc["block"] = "done"
    /\ task_pc["pending"] = "done"
    /\ task_arg["block"] = task_arg["pending"]
    /\ task_pc["cmd"] = "idle"

\* C40: once the new-block handler and the pending-transaction handler for
\* the same transaction have both completed, in either order, no operation
\* of that mined bundle is resident in the Pool: a pending-transaction
\* handler that fetched the transaction before it was mined and acquires the
\* lock after the block handler does not re-insert the mined operations.
C40_MinedNotReinserted ==
    BothHandled => task_arg["block"].op \notin Resident(ThePool)
====
